---- MODULE Spec2Model ----
(***************************************************************************)
(* Model of the executor's job handler (handler.Handle, handler.PreDequeue)*)
(* and of the batch-changes workspace resolver (findWorkspaces and the     *)
(* functions around it).                                                   *)
(*                                                                         *)
(* Strings whose bytes matter (paths, image names, repository names) are   *)
(* sequences of one-character strings; an error value is the chain of its  *)
(* wrapping layers, outermost first.                                       *)
(***************************************************************************)
EXTENDS Integers, Sequences, FiniteSets, TLC

\* ------------------------------------------------------------------------
\* Bounds
\* ------------------------------------------------------------------------
MaxFiles == 2          \* virtual files per job
MaxDockerSteps == 2    \* docker steps per job
MaxCliSteps == 2       \* src-cli steps per job
MaxVMs == 4            \* live VMs the host can show to PreDequeue
MaxNumHandlers == 3    \* largest configured WorkerOptions.NumHandlers
MaxRepos == 2          \* repositories a batch spec resolves to
MaxConfigs == 2        \* workspaces: entries of a batch spec
MaxSteps == 2          \* steps: entries of a batch spec
MaxDirs == 2           \* directories a directory search returns for one repository
MaxFragments == 3      \* pieces a search query is put together from
MaxCalls == 2          \* successive calls of setDefaultQueryCount
MaxSelectors == 2      \* on: entries of a batch spec
MaxMatches == 2        \* matches a repository search streams back
MaxRuns == 2           \* calls of ResolveWorkspacesForBatchSpec on one batch spec
MaxChecks == 6         \* repositories given to findIgnoredRepositories when its pool is studied
MaxSearched == 11      \* repositories given to FindDirectoriesInRepos when its semaphore is studied

\* ------------------------------------------------------------------------
\* Strings
\* ------------------------------------------------------------------------
\* The characters in use, in byte order.
Alphabet ==
    <<" ", "*", "-", ".", "/", "5", ":", "[", "a", "b", "c", "d", "e", "f", "g", "l", "m", "n",
      "o", "r", "t", "u", "v", "w", "x">>

CharCode(c) == CHOOSE i \in 1..Len(Alphabet) : Alphabet[i] = c

\* Go's < on strings: byte-wise lexicographic.
StrLess(s, t) ==
    \E i \in 1..Len(t) :
        /\ i <= Len(s) + 1
        /\ \A j \in 1..(i - 1) : s[j] = t[j]
        /\ IF i = Len(s) + 1 THEN TRUE ELSE CharCode(s[i]) < CharCode(t[i])

\* strings.HasPrefix
HasPrefix(s, prefix) ==
    /\ Len(prefix) <= Len(s)
    /\ SubSeq(s, 1, Len(prefix)) = prefix

RECURSIVE SplitPath(_)
\* The components of a path between its separators (empty ones included).
SplitPath(s) ==
    IF \A i \in 1..Len(s) : s[i] # "/"
    THEN <<s>>
    ELSE LET i == CHOOSE k \in 1..Len(s) :
                      s[k] = "/" /\ \A j \in 1..(k - 1) : s[j] # "/"
         IN <<SubSeq(s, 1, i - 1)>> \o SplitPath(SubSeq(s, i + 1, Len(s)))

RECURSIVE CleanComponents(_, _, _)
\* The component stack filepath.Clean builds: "" and "." are dropped, ".."
\* removes the component before it; at the root ".." is dropped, at the
\* start of a relative path it is kept.
CleanComponents(comps, rooted, out) ==
    IF comps = <<>> THEN out
    ELSE LET c == Head(comps)
             rest == Tail(comps)
         IN IF c = <<>> \/ c = <<".">>
            THEN CleanComponents(rest, rooted, out)
            ELSE IF c = <<".", ".">>
            THEN IF out # <<>> /\ out[Len(out)] # <<".", ".">>
                 THEN CleanComponents(rest, rooted, SubSeq(out, 1, Len(out) - 1))
                 ELSE IF rooted
                      THEN CleanComponents(rest, rooted, out)
                      ELSE CleanComponents(rest, rooted, Append(out, c))
            ELSE CleanComponents(rest, rooted, Append(out, c))

RECURSIVE JoinComponents(_)
JoinComponents(comps) ==
    IF comps = <<>> THEN <<>>
    ELSE IF Len(comps) = 1 THEN comps[1]
    ELSE comps[1] \o <<"/">> \o JoinComponents(Tail(comps))

\* filepath.Clean
Clean(path) ==
    IF path = <<>> THEN <<".">>
    ELSE LET rooted == path[1] = "/"
             out == JoinComponents(CleanComponents(SplitPath(path), rooted, <<>>))
         IN IF rooted THEN <<"/">> \o out
            ELSE IF out = <<>> THEN <<".">> ELSE out

\* filepath.Join of two elements: empty elements are ignored, the rest is
\* joined with a separator and cleaned.
Join(a, b) ==
    IF a = <<>> /\ b = <<>> THEN <<>>
    ELSE IF a = <<>> THEN Clean(b)
    ELSE IF b = <<>> THEN Clean(a)
    ELSE Clean(a \o <<"/">> \o b)

\* filepath.Abs of a path that is already absolute (the working directory
\* is), which cannot fail.
Abs(path) == Clean(path)

\* The orders in which a map with key set S can be iterated.
Orders(S) == {s \in [1..Cardinality(S) -> S] : \A x \in S : \E i \in DOMAIN s : s[i] = x}

RECURSIVE InsertSorted(_, _)
InsertSorted(sorted, x) ==
    IF sorted = <<>> THEN <<x>>
    ELSE IF StrLess(x, Head(sorted)) THEN <<x>> \o sorted
    ELSE <<Head(sorted)>> \o InsertSorted(Tail(sorted), x)

RECURSIVE SortStrings(_)
\* sort.Strings
SortStrings(seq) ==
    IF seq = <<>> THEN <<>>
    ELSE InsertSorted(SortStrings(SubSeq(seq, 1, Len(seq) - 1)), seq[Len(seq)])

Range(seq) == {seq[i] : i \in DOMAIN seq}

\* ------------------------------------------------------------------------
\* Errors
\* ------------------------------------------------------------------------
Layer(t, msg, d) == [t |-> t, msg |-> msg, d |-> d]

\* context.DeadlineExceeded
DeadlineExceeded == <<Layer("DeadlineExceeded", "", 0)>>

\* errors.Is(err, target) for a leaf target
ErrorsIs(chain, target) == \E i \in 1..Len(chain) : chain[i] = target[1]

\* errors.Wrap
Wrap(chain, message) == <<Layer("msg", message, 0)>> \o chain

\* errors.Errorf("job exceeded maximum execution time of %s", d)
ExceededError(d) == <<Layer("job exceeded maximum execution time of", "", d)>>

RefusingError == <<Layer("refusing to write outside of working directory", "", 0)>>

\* A value of Go's error interface as Handle returns it: nil, one error, or
\* a *multierror.Error with its list.
Plain(chain) == [multi |-> FALSE, chain |-> chain, errors |-> <<>>]
Nil == Plain(<<>>)
IsNil(e) == ~e.multi /\ e.chain = <<>>

\* The error a collaborator returns for an outcome other than "ok".
CollaboratorError(outcome, src) ==
    CASE outcome = "fail" -> <<Layer("cause", src, 0)>>
      [] outcome = "deadline" -> DeadlineExceeded
      [] outcome = "wrappedDeadline" -> <<Layer("msg", src, 0)>> \o DeadlineExceeded

\* The teardown error assigned to the result instead of appended.
MultierrorOverwrite(e, other) == Plain(other)

\* multierror.Append(err, other) for a plain other
MultierrorAppend(e, other) ==
    IF e.multi THEN [multi |-> TRUE, chain |-> <<>>, errors |-> Append(e.errors, other)]
    ELSE IF e.chain = <<>> THEN [multi |-> TRUE, chain |-> <<>>, errors |-> <<other>>]
    ELSE [multi |-> TRUE, chain |-> <<>>, errors |-> <<e.chain, other>>]

\* The errors an error value carries.
Members(e) == IF e.multi THEN Range(e.errors) ELSE IF e.chain = <<>> THEN {} ELSE {e.chain}

\* ------------------------------------------------------------------------
\* State
\* ------------------------------------------------------------------------
VARIABLES
    options,           \* handler.options
    nameSet,           \* handler.nameSet: the process-wide set of VM names in use
    disk,              \* absolute paths of the virtual files on the host's disk
    pc,                \* per worker: the statement of Handle it is at
    job,               \* per worker: the record Handle was called with
    expired,           \* per worker: the job context's deadline has passed
    workingDirectory,  \* per worker: the directory prepareWorkspace returned
    pending,           \* per worker: VirtualMachineFiles the range loop has not visited
    name,              \* per worker: the VM name
    imageNames,        \* per worker: the image list built for Setup
    scriptNames,       \* per worker: the script names written so far
    idx,               \* per worker: the index variable of the current loop
    defers,            \* per worker: the deferred calls, last registered last
    err,               \* per worker: Handle's named result
    failure,           \* per worker: the call that made Handle return early
    calls,             \* per worker: the calls Handle has made, in order
    liveVMs,           \* VMs on the host that carry this executor's prefix
    pd,                \* the last return of PreDequeue and what it saw
    batchSpec,         \* the batch spec being resolved
    repoRevs,          \* the RepoRevisions given to findWorkspaces
    fwpc,              \* the statement of findWorkspaces the resolver is at
    root,              \* findWorkspaces: repositories no workspace configuration matched
    matched,           \* findWorkspaces: configuration index -> repositories it matched
    searched,          \* findWorkspaces: configuration indexes whose directories were searched
    workspacesByRepoRev, \* findWorkspaces: key -> paths found for the repository
    workspaces,        \* the list findWorkspaces returns
    fwErr,             \* the error findWorkspaces returns
    finderCalls,       \* the FindDirectoriesInRepos calls made, in order
    query,             \* the search query given to setDefaultQueryCount
    counted,           \* what setDefaultQueryCount returned, call after call
    world,             \* what the database, gitserver and the search service answer
    rpc,               \* the statement of ResolveWorkspacesForBatchSpec the resolver is at
    onIdx,             \* determineRepositories: the index of the next selector
    seen,              \* determineRepositories: repository ID -> RepoRevision
    drErrs,            \* determineRepositories: the errors appended to errs
    repos,             \* the list determineRepositories returns
    reposErr,          \* the error determineRepositories returns
    requests,          \* the requests made to the outside and the selectors tried, in order
    igpc,              \* findIgnoredRepositories: the statement its caller's goroutine is at
    sendIdx,           \* findIgnoredRepositories: the index of the next repository to send
    input,             \* findIgnoredRepositories: the input channel's buffer
    inputClosed,       \* findIgnoredRepositories: close(input) has run
    results,           \* findIgnoredRepositories: the results channel's buffer
    resultsClosed,     \* findIgnoredRepositories: close(results) has run
    checking,          \* findIgnoredRepositories: the repositories workers are checking
    exited,            \* findIgnoredRepositories: the workers that have returned
    ignored,           \* findIgnoredRepositories: the ignored map
    igErrs,            \* findIgnoredRepositories: the errors appended to errs
    igErr,             \* the error findIgnoredRepositories returns
    fdpc,              \* FindDirectoriesInRepos: the statement its caller's goroutine is at
    fdConf,            \* the index of the configuration FindDirectoriesInRepos was called for
    fdIdx,             \* FindDirectoriesInRepos: the index of the next repository
    sem,               \* FindDirectoriesInRepos: the permits in the sem channel
    gor,               \* FindDirectoriesInRepos: the goroutines started, by repository index
    fdResults,         \* FindDirectoriesInRepos: the results map
    fdErrs,            \* FindDirectoriesInRepos: the errs variable, as a list of errors
    resolved,          \* the list ResolveWorkspacesForBatchSpec returns
    resolveErr,        \* the error ResolveWorkspacesForBatchSpec returns
    returned           \* what the calls of ResolveWorkspacesForBatchSpec returned so far

handlerVars == <<nameSet, disk, pc, job, expired, workingDirectory, pending, name,
                 imageNames, scriptNames, idx, defers, err, failure, calls>>
preDequeueVars == <<liveVMs, pd>>
resolverVars == <<batchSpec, repoRevs, fwpc, root, matched, searched, workspacesByRepoRev,
                  workspaces, fwErr, finderCalls>>
queryVars == <<query, counted>>
repositoryVars == <<world, rpc, onIdx, seen, drErrs, repos, reposErr, requests>>
ignoreVars == <<igpc, sendIdx, input, inputClosed, results, resultsClosed, checking, exited,
                ignored, igErrs, igErr>>
finderVars == <<fdpc, fdConf, fdIdx, sem, gor, fdResults, fdErrs>>
resolveVars == <<resolved, resolveErr, returned>>
serviceVars == <<queryVars, repositoryVars, ignoreVars, finderVars, resolveVars>>

\* The workers that can run Handle at the same time; Spec runs one of them.
Workers == {"w1", "w2"}
SoloWorkers == {"w1"}

\* Configured values of MaximumRuntimePerJob, in minutes.
Durations == {1, 30}

VMPrefix == "executor"

\* Relative paths a job may name in VirtualMachineFiles:
\* "f", "../e", "../wx", "../w/g" and "b/../f".
RelPaths == { <<"f">>,
              <<".", ".", "/", "e">>,
              <<".", ".", "/", "w", "x">>,
              <<".", ".", "/", "w", "/", "g">>,
              <<"b", "/", ".", ".", "/", "f">> }

\* Docker images: "a", "ab", "b".
Images == { <<"a">>, <<"a", "b">>, <<"b">> }

\* The directory prepareWorkspace makes for a worker: "/t/w" and "/t/v".
WorkDirOf(h) == IF h = "w1" THEN <<"/", "t", "/", "w">> ELSE <<"/", "t", "/", "v">>

JobIDOf(h) == IF h = "w1" THEN 1 ELSE 2

Jobs(h) ==
    { [ID |-> JobIDOf(h), VirtualMachineFiles |-> files, DockerSteps |-> docker, CliSteps |-> cli] :
        files \in {S \in SUBSET RelPaths : Cardinality(S) <= MaxFiles},
        docker \in UNION {[1..n -> [Image : Images]] : n \in 0..MaxDockerSteps},
        cli \in {[k \in 1..n |-> [Key |-> k]] : n \in 0..MaxCliSteps} }

\* The jobs of the handlers that run side by side: at most one virtual
\* file, at most one docker step, no src-cli step.
SmallJobs(h) ==
    { [ID |-> JobIDOf(h), VirtualMachineFiles |-> files, DockerSteps |-> docker, CliSteps |-> <<>>] :
        files \in {{}, {<<"f">>}},
        docker \in {<<>>, <<[Image |-> <<"a">>]>>} }

\* The records Handle can be called with.
JobsOffered(h) == IF options.NumHandlers = 1 THEN Jobs(h) ELSE SmallJobs(h)

NoJob == [ID |-> 0, VirtualMachineFiles |-> {}, DockerSteps |-> <<>>, CliSteps |-> <<>>]
NoName == [prefix |-> "", suffix |-> 0]
NoFailure == [phase |-> "", outcome |-> ""]

Call(op, kind, i, ctx, ok, path, images) ==
    [op |-> op, kind |-> kind, i |-> i, ctx |-> ctx, ok |-> ok, path |-> path, images |-> images]

\* What a call that was given context c can return: a context that has not
\* expired produces no deadline error.
Outcomes(h, c) ==
    {"ok", "fail"} \cup (IF c = "job" /\ expired[h] THEN {"deadline", "wrappedDeadline"} ELSE {})

\* ------------------------------------------------------------------------
\* handler.Handle
\* ------------------------------------------------------------------------
\* wrapError comparing the error itself with the deadline error, not its chain.
wrapErrorComparingEqual(chain, message) ==
    Wrap(IF chain = DeadlineExceeded
         THEN ExceededError(options.MaximumRuntimePerJob)
         ELSE chain,
         message)

\* The wrapError closure of Handle.
wrapError(chain, message) ==
    Wrap(IF ErrorsIs(chain, DeadlineExceeded)
         THEN ExceededError(options.MaximumRuntimePerJob)
         ELSE chain,
         message)

\* A return statement: the named result is set, then the deferred calls run.
Return(h, e, phase, outcome) ==
    /\ err' = [err EXCEPT ![h] = e]
    /\ failure' = [failure EXCEPT ![h] = [phase |-> phase, outcome |-> outcome]]
    /\ pc' = [pc EXCEPT ![h] = "return"]

Log(h, c) == calls' = [calls EXCEPT ![h] = Append(@, c)]

Defer(h, d) == defers' = [defers EXCEPT ![h] = Append(@, d)]

Top(h) == defers[h][Len(defers[h])]

Pop(h) == defers' = [defers EXCEPT ![h] = SubSeq(@, 1, Len(@) - 1)]

\* Entry of Handle: the job context gets its deadline; cancel, the honeycomb
\* event and the logger flush are deferred.
HandleBegin(h) ==
    /\ pc[h] = "idle"
    /\ \E j \in JobsOffered(h) :
        /\ job' = [job EXCEPT ![h] = j]
        /\ pending' = [pending EXCEPT ![h] = j.VirtualMachineFiles]
    /\ defers' = [defers EXCEPT ![h] = <<"cancel", "honey", "flush">>]
    /\ pc' = [pc EXCEPT ![h] = "prepareWorkspace"]
    /\ UNCHANGED <<options, nameSet, disk, expired, workingDirectory, name, imageNames,
                   scriptNames, idx, err, failure, calls, preDequeueVars, resolverVars, serviceVars>>

\* The deadline of the job context passes while Handle is running.
DeadlineExpires(h) ==
    /\ pc[h] \notin {"idle", "done"}
    /\ \E i \in 1..Len(defers[h]) : defers[h][i] = "cancel"
    /\ ~expired[h]
    /\ expired' = [expired EXCEPT ![h] = TRUE]
    /\ UNCHANGED <<options, nameSet, disk, pc, job, workingDirectory, pending, name, imageNames,
                   scriptNames, idx, defers, err, failure, calls, preDequeueVars, resolverVars, serviceVars>>

\* prepareWorkspace without the deferred removal of the directory.
PrepareWorkspaceWithoutDefer(h) ==
    /\ pc[h] = "prepareWorkspace"
    /\ \E o \in Outcomes(h, "job") :
        IF o = "ok"
        THEN /\ workingDirectory' = [workingDirectory EXCEPT ![h] = WorkDirOf(h)]
             /\ pc' = [pc EXCEPT ![h] = "virtualFiles"]
             /\ Log(h, Call("prepareWorkspace", "", 0, "job", TRUE, <<>>, <<>>))
             /\ UNCHANGED <<err, failure, defers>>
        ELSE /\ Return(h, Plain(wrapError(CollaboratorError(o, "prepareWorkspace"),
                                          "failed to prepare workspace")),
                       "prepareWorkspace", o)
             /\ Log(h, Call("prepareWorkspace", "", 0, "job", FALSE, <<>>, <<>>))
             /\ UNCHANGED <<workingDirectory, defers>>
    /\ UNCHANGED <<options, nameSet, disk, job, expired, pending, name, imageNames,
                   scriptNames, idx, preDequeueVars, resolverVars, serviceVars>>

\* h.prepareWorkspace; os.RemoveAll(workingDirectory) is deferred when it
\* succeeds.
PrepareWorkspace(h) ==
    /\ pc[h] = "prepareWorkspace"
    /\ \E o \in Outcomes(h, "job") :
        IF o = "ok"
        THEN /\ workingDirectory' = [workingDirectory EXCEPT ![h] = WorkDirOf(h)]
             /\ Defer(h, "removeAll")
             /\ pc' = [pc EXCEPT ![h] = "virtualFiles"]
             /\ Log(h, Call("prepareWorkspace", "", 0, "job", TRUE, <<>>, <<>>))
             /\ UNCHANGED <<err, failure>>
        ELSE /\ Return(h, Plain(wrapError(CollaboratorError(o, "prepareWorkspace"),
                                          "failed to prepare workspace")),
                       "prepareWorkspace", o)
             /\ Log(h, Call("prepareWorkspace", "", 0, "job", FALSE, <<>>, <<>>))
             /\ UNCHANGED <<workingDirectory, defers>>
    /\ UNCHANGED <<options, nameSet, disk, job, expired, pending, name, imageNames,
                   scriptNames, idx, preDequeueVars, resolverVars, serviceVars>>

\* The guard of the virtual-file loop.
InsideWorkingDirectory(path, dir) == HasPrefix(path, dir)

\* One iteration of the loop over job.VirtualMachineFiles (a map: any order).
WriteVirtualFile(h) ==
    /\ pc[h] = "virtualFiles"
    /\ pending[h] # {}
    /\ \E relativePath \in pending[h] :
        LET path == Abs(Join(workingDirectory[h], relativePath))
        IN /\ pending' = [pending EXCEPT ![h] = @ \ {relativePath}]
           /\ IF ~InsideWorkingDirectory(path, workingDirectory[h])
              THEN /\ Return(h, Plain(RefusingError), "guard", "fail")
                   /\ UNCHANGED <<disk, calls>>
              ELSE \E o \in {"ok", "fail"} :
                     IF o = "ok"
                     THEN /\ disk' = disk \cup {path}
                          /\ Log(h, Call("WriteFile", "virtual", 0, "", TRUE, path, <<>>))
                          /\ UNCHANGED <<err, failure, pc>>
                     ELSE /\ Return(h, Plain(CollaboratorError(o, "WriteFile")), "writeFile", o)
                          /\ Log(h, Call("WriteFile", "virtual", 0, "", FALSE, path, <<>>))
                          /\ UNCHANGED disk
    /\ UNCHANGED <<options, nameSet, job, expired, workingDirectory, name, imageNames,
                   scriptNames, idx, defers, preDequeueVars, resolverVars, serviceVars>>

\* The loop is over; uuid.NewRandom and the VM name. A random UUID is one no
\* other invocation has: the model takes the job ID of the worker for it.
NewVMName(h) ==
    /\ pc[h] = "virtualFiles"
    /\ pending[h] = {}
    /\ \E o \in {"ok", "fail"} :
        IF o = "ok"
        THEN /\ name' = [name EXCEPT ![h] = [prefix |-> options.VMPrefix, suffix |-> JobIDOf(h)]]
             /\ pc' = [pc EXCEPT ![h] = "nameSetAdd"]
             /\ UNCHANGED <<err, failure>>
        ELSE /\ Return(h, Plain(CollaboratorError(o, "uuid.NewRandom")), "uuid", o)
             /\ UNCHANGED name
    /\ UNCHANGED <<options, nameSet, disk, job, expired, workingDirectory, pending, imageNames,
                   scriptNames, idx, defers, calls, preDequeueVars, resolverVars, serviceVars>>

\* janitor.NameSet.Add and janitor.NameSet.Remove
NameSetAdd(set, n) == set \cup {n}
NameSetRemove(set, n) == set \ {n}

\* Add without the deferred Remove.
AddNameWithoutDefer(h) ==
    /\ pc[h] = "nameSetAdd"
    /\ nameSet' = NameSetAdd(nameSet, name[h])
    /\ Log(h, Call("NameSetAdd", "", 0, "", TRUE, <<>>, <<>>))
    /\ pc' = [pc EXCEPT ![h] = "imageNames"]
    /\ UNCHANGED <<options, disk, job, expired, workingDirectory, pending, name, imageNames,
                   scriptNames, idx, defers, err, failure, preDequeueVars, resolverVars, serviceVars>>

\* h.nameSet.Add(name) and the deferred Remove.
AddName(h) ==
    /\ pc[h] = "nameSetAdd"
    /\ nameSet' = NameSetAdd(nameSet, name[h])
    /\ Defer(h, "nameSetRemove")
    /\ Log(h, Call("NameSetAdd", "", 0, "", TRUE, <<>>, <<>>))
    /\ pc' = [pc EXCEPT ![h] = "imageNames"]
    /\ UNCHANGED <<options, disk, job, expired, workingDirectory, pending, name, imageNames,
                   scriptNames, idx, err, failure, preDequeueVars, resolverVars, serviceVars>>

\* The keys of imageMap.
ImageSet(dockerSteps) == {dockerSteps[i].Image : i \in DOMAIN dockerSteps}

\* The image list left in map iteration order.
UnsortedImageNames(order) == order

\* The list Handle builds for Setup from an iteration order of imageMap.
SortedImageNames(order) == SortStrings(order)

\* "Deduplicate and sort": imageMap, imageNames.
BuildImageNames(h) ==
    /\ pc[h] = "imageNames"
    /\ \E order \in Orders(ImageSet(job[h].DockerSteps)) :
        imageNames' = [imageNames EXCEPT ![h] = SortedImageNames(order)]
    /\ idx' = [idx EXCEPT ![h] = 0]
    /\ pc' = [pc EXCEPT ![h] = "scripts"]
    /\ UNCHANGED <<options, nameSet, disk, job, expired, workingDirectory, pending, name,
                   scriptNames, defers, err, failure, calls, preDequeueVars, resolverVars, serviceVars>>

\* scriptNameFromJobStep: job ID and step index (repository and commit are
\* the same for all steps of a job).
scriptNameFromJobStep(j, i) == [ID |-> j.ID, i |-> i]

\* The script loop going on after a script could not be written.
WriteScriptIgnoringError(h) ==
    /\ pc[h] = "scripts"
    /\ idx[h] < Len(job[h].DockerSteps)
    /\ \E o \in {"ok", "fail"} :
        /\ scriptNames' = [scriptNames EXCEPT ![h] = Append(@, scriptNameFromJobStep(job[h], idx[h]))]
        /\ idx' = [idx EXCEPT ![h] = @ + 1]
        /\ Log(h, Call("WriteFile", "script", idx[h], "", o = "ok", <<>>, <<>>))
        /\ UNCHANGED <<err, failure, pc>>
    /\ UNCHANGED <<options, nameSet, disk, job, expired, workingDirectory, pending, name,
                   imageNames, defers, preDequeueVars, resolverVars, serviceVars>>

\* One iteration of the loop that writes the docker steps' scripts.
WriteScript(h) ==
    /\ pc[h] = "scripts"
    /\ idx[h] < Len(job[h].DockerSteps)
    /\ \E o \in {"ok", "fail"} :
        IF o = "ok"
        THEN /\ scriptNames' = [scriptNames EXCEPT ![h] = Append(@, scriptNameFromJobStep(job[h], idx[h]))]
             /\ idx' = [idx EXCEPT ![h] = @ + 1]
             /\ Log(h, Call("WriteFile", "script", idx[h], "", TRUE, <<>>, <<>>))
             /\ UNCHANGED <<err, failure, pc>>
        ELSE /\ Return(h, Plain(CollaboratorError(o, "WriteFile")), "script", o)
             /\ Log(h, Call("WriteFile", "script", idx[h], "", FALSE, <<>>, <<>>))
             /\ UNCHANGED <<scriptNames, idx>>
    /\ UNCHANGED <<options, nameSet, disk, job, expired, workingDirectory, pending, name,
                   imageNames, defers, preDequeueVars, resolverVars, serviceVars>>

\* The context Teardown is called with.
TeardownContext == "background"

\* Setup that does not defer Teardown.
SetupWithoutDeferredTeardown(h) ==
    /\ pc[h] = "scripts"
    /\ idx[h] = Len(job[h].DockerSteps)
    /\ \E o \in Outcomes(h, "job") :
        IF o = "ok"
        THEN /\ idx' = [idx EXCEPT ![h] = 0]
             /\ pc' = [pc EXCEPT ![h] = "dockerSteps"]
             /\ Log(h, Call("Setup", "", 0, "job", TRUE, <<>>, imageNames[h]))
             /\ UNCHANGED <<err, failure>>
        ELSE /\ Return(h, Plain(wrapError(CollaboratorError(o, "Setup"),
                                          "failed to setup virtual machine")),
                       "setup", o)
             /\ Log(h, Call("Setup", "", 0, "job", FALSE, <<>>, imageNames[h]))
             /\ UNCHANGED idx
    /\ UNCHANGED <<options, nameSet, disk, job, expired, workingDirectory, pending, name,
                   imageNames, scriptNames, defers, preDequeueVars, resolverVars, serviceVars>>

\* runner.Setup(ctx, imageNames, nil); Teardown is deferred when it succeeds.
Setup(h) ==
    /\ pc[h] = "scripts"
    /\ idx[h] = Len(job[h].DockerSteps)
    /\ \E o \in Outcomes(h, "job") :
        IF o = "ok"
        THEN /\ Defer(h, "teardown")
             /\ idx' = [idx EXCEPT ![h] = 0]
             /\ pc' = [pc EXCEPT ![h] = "dockerSteps"]
             /\ Log(h, Call("Setup", "", 0, "job", TRUE, <<>>, imageNames[h]))
             /\ UNCHANGED <<err, failure>>
        ELSE /\ Return(h, Plain(wrapError(CollaboratorError(o, "Setup"),
                                          "failed to setup virtual machine")),
                       "setup", o)
             /\ Log(h, Call("Setup", "", 0, "job", FALSE, <<>>, imageNames[h]))
             /\ UNCHANGED <<defers, idx>>
    /\ UNCHANGED <<options, nameSet, disk, job, expired, workingDirectory, pending, name,
                   imageNames, scriptNames, preDequeueVars, resolverVars, serviceVars>>

\* The docker step loop going on after a step failed.
RunDockerStepIgnoringError(h) ==
    /\ pc[h] = "dockerSteps"
    /\ IF idx[h] = Len(job[h].DockerSteps)
       THEN /\ idx' = [idx EXCEPT ![h] = 0]
            /\ pc' = [pc EXCEPT ![h] = "cliSteps"]
            /\ UNCHANGED calls
       ELSE \E o \in Outcomes(h, "job") :
              /\ idx' = [idx EXCEPT ![h] = @ + 1]
              /\ Log(h, Call("Run", "docker", idx[h], "job", o = "ok", <<>>, <<>>))
              /\ UNCHANGED pc
    /\ UNCHANGED <<options, nameSet, disk, job, expired, workingDirectory, pending, name,
                   imageNames, scriptNames, defers, err, failure, preDequeueVars, resolverVars, serviceVars>>

\* One iteration of the docker step loop, or its end.
RunDockerStep(h) ==
    /\ pc[h] = "dockerSteps"
    /\ IF idx[h] = Len(job[h].DockerSteps)
       THEN /\ idx' = [idx EXCEPT ![h] = 0]
            /\ pc' = [pc EXCEPT ![h] = "cliSteps"]
            /\ UNCHANGED <<err, failure, calls>>
       ELSE \E o \in Outcomes(h, "job") :
              IF o = "ok"
              THEN /\ idx' = [idx EXCEPT ![h] = @ + 1]
                   /\ Log(h, Call("Run", "docker", idx[h], "job", TRUE, <<>>, <<>>))
                   /\ UNCHANGED <<err, failure, pc>>
              ELSE /\ Return(h, Plain(wrapError(CollaboratorError(o, "Run"),
                                                "failed to perform docker step")),
                             "docker", o)
                   /\ Log(h, Call("Run", "docker", idx[h], "job", FALSE, <<>>, <<>>))
                   /\ UNCHANGED idx
    /\ UNCHANGED <<options, nameSet, disk, job, expired, workingDirectory, pending, name,
                   imageNames, scriptNames, defers, preDequeueVars, resolverVars, serviceVars>>

\* One iteration of the src-cli step loop, or "return nil" at its end.
RunCliStep(h) ==
    /\ pc[h] = "cliSteps"
    /\ IF idx[h] = Len(job[h].CliSteps)
       THEN /\ Return(h, Nil, "", "")
            /\ UNCHANGED <<idx, calls>>
       ELSE \E o \in Outcomes(h, "job") :
              IF o = "ok"
              THEN /\ idx' = [idx EXCEPT ![h] = @ + 1]
                   /\ Log(h, Call("Run", "cli", idx[h], "job", TRUE, <<>>, <<>>))
                   /\ UNCHANGED <<err, failure, pc>>
              ELSE /\ Return(h, Plain(wrapError(CollaboratorError(o, "Run"),
                                                "failed to perform src-cli step")),
                             "cli", o)
                   /\ Log(h, Call("Run", "cli", idx[h], "job", FALSE, <<>>, <<>>))
                   /\ UNCHANGED idx
    /\ UNCHANGED <<options, nameSet, disk, job, expired, workingDirectory, pending, name,
                   imageNames, scriptNames, defers, preDequeueVars, resolverVars, serviceVars>>

\* The deferred runner.Teardown: its error is appended to the named result.
Teardown(h) ==
    /\ pc[h] = "return"
    /\ defers[h] # <<>>
    /\ Top(h) = "teardown"
    /\ Pop(h)
    /\ \E o \in Outcomes(h, TeardownContext) :
        /\ Log(h, Call("Teardown", "", 0, TeardownContext, o = "ok", <<>>, <<>>))
        /\ IF o = "ok"
           THEN UNCHANGED err
           ELSE err' = [err EXCEPT ![h] = MultierrorAppend(@, CollaboratorError(o, "Teardown"))]
    /\ UNCHANGED <<options, nameSet, disk, pc, job, expired, workingDirectory, pending, name,
                   imageNames, scriptNames, idx, failure, preDequeueVars, resolverVars, serviceVars>>

\* A deferred Remove that empties the name set.
RemoveEveryName(h) ==
    /\ pc[h] = "return"
    /\ defers[h] # <<>>
    /\ Top(h) = "nameSetRemove"
    /\ Pop(h)
    /\ nameSet' = {}
    /\ Log(h, Call("NameSetRemove", "", 0, "", TRUE, <<>>, <<>>))
    /\ UNCHANGED <<options, disk, pc, job, expired, workingDirectory, pending, name,
                   imageNames, scriptNames, idx, err, failure, preDequeueVars, resolverVars, serviceVars>>

\* The deferred h.nameSet.Remove(name).
RemoveName(h) ==
    /\ pc[h] = "return"
    /\ defers[h] # <<>>
    /\ Top(h) = "nameSetRemove"
    /\ Pop(h)
    /\ nameSet' = NameSetRemove(nameSet, name[h])
    /\ Log(h, Call("NameSetRemove", "", 0, "", TRUE, <<>>, <<>>))
    /\ UNCHANGED <<options, disk, pc, job, expired, workingDirectory, pending, name,
                   imageNames, scriptNames, idx, err, failure, preDequeueVars, resolverVars, serviceVars>>

\* The deferred os.RemoveAll(workingDirectory).
RemoveWorkingDirectory(h) ==
    /\ pc[h] = "return"
    /\ defers[h] # <<>>
    /\ Top(h) = "removeAll"
    /\ Pop(h)
    /\ disk' = {p \in disk : ~(p = workingDirectory[h] \/ HasPrefix(p, workingDirectory[h] \o <<"/">>))}
    /\ Log(h, Call("RemoveAll", "", 0, "", TRUE, <<>>, <<>>))
    /\ UNCHANGED <<options, nameSet, pc, job, expired, workingDirectory, pending, name,
                   imageNames, scriptNames, idx, err, failure, preDequeueVars, resolverVars, serviceVars>>

\* The deferred logger.Flush, honeycomb event and cancel.
FinishDeferred(h) ==
    /\ pc[h] = "return"
    /\ defers[h] # <<>>
    /\ Top(h) \in {"flush", "honey", "cancel"}
    /\ Pop(h)
    /\ UNCHANGED <<options, nameSet, disk, pc, job, expired, workingDirectory, pending, name,
                   imageNames, scriptNames, idx, err, failure, calls, preDequeueVars, resolverVars, serviceVars>>

\* Handle hands its result to the caller.
HandleReturn(h) ==
    /\ pc[h] = "return"
    /\ defers[h] = <<>>
    /\ pc' = [pc EXCEPT ![h] = "done"]
    /\ UNCHANGED <<options, nameSet, disk, job, expired, workingDirectory, pending, name,
                   imageNames, scriptNames, idx, defers, err, failure, calls, preDequeueVars, resolverVars, serviceVars>>

vars == <<options, handlerVars, preDequeueVars, resolverVars, serviceVars>>

NoPreDequeue ==
    [called |-> FALSE, dequeueable |-> FALSE, err |-> <<>>, listed |-> 0, listFailed |-> FALSE,
     live |-> 0]

NoBatchSpec == [On |-> <<>>, Workspaces |-> <<>>, Steps |-> <<>>]
NoError == [kind |-> "nil", repo |-> <<>>, glob |-> <<>>, errors |-> <<>>]

NoWorld == [repo |-> <<>>, search |-> <<>>, stat |-> <<>>, find |-> <<>>]

\* determineRepositories has not been called.
RepositoriesIdle ==
    /\ world = NoWorld
    /\ rpc = "idle"
    /\ onIdx = 0
    /\ seen = <<>>
    /\ drErrs = <<>>
    /\ repos = <<>>
    /\ reposErr = NoError
    /\ requests = <<>>

\* No query has been given to setDefaultQueryCount.
QueryIdle ==
    /\ query = <<>>
    /\ counted = <<>>

\* findIgnoredRepositories has not been called.
IgnoreIdle ==
    /\ igpc = "idle"
    /\ sendIdx = 0
    /\ input = <<>>
    /\ inputClosed = FALSE
    /\ results = <<>>
    /\ resultsClosed = FALSE
    /\ checking = {}
    /\ exited = 0
    /\ ignored = {}
    /\ igErrs = <<>>
    /\ igErr = NoError

\* FindDirectoriesInRepos has not been called.
FinderIdle ==
    /\ fdpc = "idle"
    /\ fdConf = 0
    /\ fdIdx = 0
    /\ sem = 0
    /\ gor = <<>>
    /\ fdResults = <<>>
    /\ fdErrs = <<>>

\* ResolveWorkspacesForBatchSpec has not returned.
ResolveIdle ==
    /\ resolved = <<>>
    /\ resolveErr = NoError
    /\ returned = <<>>

ServiceIdle == QueryIdle /\ RepositoriesIdle /\ IgnoreIdle /\ FinderIdle /\ ResolveIdle

\* The resolver before it is given anything to resolve.
ResolverIdle ==
    /\ batchSpec = NoBatchSpec
    /\ repoRevs = <<>>
    /\ fwpc = "idle"
    /\ root = <<>>
    /\ matched = <<>>
    /\ searched = {}
    /\ workspacesByRepoRev = <<>>
    /\ workspaces = <<>>
    /\ fwErr = NoError
    /\ finderCalls = <<>>

HandlerInit ==
    /\ nameSet = {}
    /\ disk = {}
    /\ pc = [h \in Workers |-> "idle"]
    /\ job = [h \in Workers |-> NoJob]
    /\ expired = [h \in Workers |-> FALSE]
    /\ workingDirectory = [h \in Workers |-> <<>>]
    /\ pending = [h \in Workers |-> {}]
    /\ name = [h \in Workers |-> NoName]
    /\ imageNames = [h \in Workers |-> <<>>]
    /\ scriptNames = [h \in Workers |-> <<>>]
    /\ idx = [h \in Workers |-> 0]
    /\ defers = [h \in Workers |-> <<>>]
    /\ err = [h \in Workers |-> Nil]
    /\ failure = [h \in Workers |-> NoFailure]
    /\ calls = [h \in Workers |-> <<>>]

Init ==
    /\ options \in [FirecrackerEnabled : {TRUE}, NumHandlers : {1},
                    MaximumRuntimePerJob : Durations, VMPrefix : {VMPrefix}]
    /\ HandlerInit
    /\ liveVMs = 0
    /\ pd = NoPreDequeue
    /\ ResolverIdle
    /\ ServiceIdle

Handle(h) ==
    \/ HandleBegin(h)
    \/ DeadlineExpires(h)
    \/ PrepareWorkspace(h)
    \/ WriteVirtualFile(h)
    \/ NewVMName(h)
    \/ AddName(h)
    \/ BuildImageNames(h)
    \/ WriteScript(h)
    \/ Setup(h)
    \/ RunDockerStep(h)
    \/ RunCliStep(h)
    \/ Teardown(h)
    \/ RemoveName(h)
    \/ RemoveWorkingDirectory(h)
    \/ FinishDeferred(h)
    \/ HandleReturn(h)

Next == \E h \in SoloWorkers : Handle(h)

Spec == Init /\ [][Next]_vars

\* Two handlers of one executor run Handle side by side.
InitConcurrent ==
    /\ options \in [FirecrackerEnabled : {TRUE}, NumHandlers : {Cardinality(Workers)},
                    MaximumRuntimePerJob : {1}, VMPrefix : {VMPrefix}]
    /\ HandlerInit
    /\ liveVMs = 0
    /\ pd = NoPreDequeue
    /\ ResolverIdle
    /\ ServiceIdle

NextConcurrent == \E h \in Workers : Handle(h)

SpecConcurrent == InitConcurrent /\ [][NextConcurrent]_vars

\* ------------------------------------------------------------------------
\* handler.PreDequeue
\* ------------------------------------------------------------------------
\* The comparison that lets a job through, with <= in place of <.
DequeueableAtLimit(currentVMs, numHandlers) == currentVMs <= numHandlers

\* len(currentVMs) < h.options.WorkerOptions.NumHandlers
Dequeueable(currentVMs, numHandlers) == currentVMs < numHandlers

PreDequeueReturn(dequeueable, e, listed, listFailed) ==
    [called |-> TRUE, dequeueable |-> dequeueable, err |-> e, listed |-> listed,
     listFailed |-> listFailed, live |-> liveVMs]

\* One call of PreDequeue; ignite.CurrentlyRunningVMs lists the live VMs or fails.
PreDequeue ==
    /\ IF ~options.FirecrackerEnabled
       THEN pd' = PreDequeueReturn(TRUE, <<>>, 0, FALSE)
       ELSE \E o \in {"ok", "fail"} :
              IF o # "ok"
              THEN pd' = PreDequeueReturn(FALSE, CollaboratorError(o, "CurrentlyRunningVMs"), 0, TRUE)
              ELSE IF Dequeueable(liveVMs, options.NumHandlers)
                   THEN pd' = PreDequeueReturn(TRUE, <<>>, liveVMs, FALSE)
                   ELSE pd' = PreDequeueReturn(FALSE, <<>>, liveVMs, FALSE)
    /\ UNCHANGED <<options, handlerVars, liveVMs, resolverVars, serviceVars>>

\* A VM with this executor's prefix comes up on the host.
VMStarts ==
    /\ liveVMs < MaxVMs
    /\ liveVMs' = liveVMs + 1
    /\ UNCHANGED <<options, handlerVars, pd, resolverVars, serviceVars>>

\* A VM goes away (its job ended, or the janitor reclaimed it).
VMStops ==
    /\ liveVMs > 0
    /\ liveVMs' = liveVMs - 1
    /\ UNCHANGED <<options, handlerVars, pd, resolverVars, serviceVars>>

InitPreDequeue ==
    /\ options \in [FirecrackerEnabled : BOOLEAN, NumHandlers : 1..MaxNumHandlers,
                    MaximumRuntimePerJob : {1}, VMPrefix : {VMPrefix}]
    /\ HandlerInit
    /\ liveVMs = 0
    /\ pd = NoPreDequeue
    /\ ResolverIdle
    /\ ServiceIdle

NextPreDequeue == PreDequeue \/ VMStarts \/ VMStops

SpecPreDequeue == InitPreDequeue /\ [][NextPreDequeue]_vars

\* ------------------------------------------------------------------------
\* findWorkspaces
\* ------------------------------------------------------------------------
\* Names of the repositories, by repository ID: "a/x", "b", "a", "b/m".
RepoNames == << <<"a", "/", "x">>, <<"b">>, <<"a">>, <<"b", "/", "m">> >>

\* The RepoRevision of a repository: determineRepositories keeps one per
\* repository ID, and only with a branch.
RepoRevisionOf(id) ==
    [Repo |-> [ID |-> id, Name |-> RepoNames[id]], Branch |-> <<"m">>, Commit |-> id,
     FileMatches |-> <<>>]

\* The lists determineRepositories can return: any order (it ranges over a
\* map), no repository ID twice.
RepoRevLists ==
    UNION { {[i \in 1..Cardinality(S) |-> RepoRevisionOf(order[i])] : order \in Orders(S)} :
              S \in SUBSET (1..MaxRepos) }

\* workspaces.in globs: "*", "a*", "b" and "[", which does not compile.
Globs == { <<"*">>, <<"a", "*">>, <<"b">>, <<"[">> }

WorkspaceConfigurations ==
    [In : Globs, RootAtLocationOf : {"go.mod"}, OnlyFetchWorkspace : BOOLEAN]

\* The if: conditions of steps, named by what template.IsStaticBool makes of
\* them: "" is no condition; "true", "false" and "repo is a/x" are static;
\* "dynamic" is not; "malformed" does not parse.
Conditions == {"", "true", "false", "repo is a/x", "dynamic", "malformed"}

\* Step lists: step k runs command k under its condition.
StepLists ==
    UNION { {[k \in 1..n |-> [Run |-> k, If |-> conds[k]]] : conds \in [1..n -> Conditions]} :
              n \in 0..MaxSteps }

BatchSpecs ==
    [On : {<<>>},
     Workspaces : UNION {[1..n -> WorkspaceConfigurations] : n \in 0..MaxConfigs},
     Steps : StepLists]

\* Batch specs with one workspace configuration more and nothing else that
\* varies: no steps, no fetch-only flag.
ManyConfigurations ==
    [On : {<<>>},
     Workspaces : UNION {[1..n -> [In : Globs, RootAtLocationOf : {"go.mod"},
                                   OnlyFetchWorkspace : {FALSE}]] : n \in 0..(MaxConfigs + 1)},
     Steps : {<<>>}]

\* The directories a search can report: "" (the root) and "m".
Dirs == { <<>>, <<"m">> }

DirLists == UNION {[1..n -> Dirs] : n \in 0..MaxDirs}

Error(kind, repo, g, errors) == [kind |-> kind, repo |-> repo, glob |-> g, errors |-> errors]

\* glob.Compile: a glob with an unclosed "[" is rejected.
GlobCompiles(g) == \A i \in 1..Len(g) : g[i] # "["

RECURSIVE GlobMatch(_, _)
\* glob.Glob.Match for literals and "*", which matches any run of characters.
GlobMatch(g, s) ==
    IF g = <<>> THEN s = <<>>
    ELSE IF Head(g) = "*"
    THEN \E k \in 0..Len(s) : GlobMatch(Tail(g), SubSeq(s, k + 1, Len(s)))
    ELSE s # <<>> /\ Head(s) = Head(g) /\ GlobMatch(Tail(g), Tail(s))

\* RepoRevision.Key
Key(r) == [RepoID |-> r.Repo.ID, Branch |-> r.Branch, Commit |-> r.Commit]

\* "Pre-compile all globs": the errors of the globs that do not compile.
CompileErrors(spec) ==
    LET IsBad(conf) == ~GlobCompiles(conf.In)
        bad == SelectSeq(spec.Workspaces, IsBad)
    IN [i \in 1..Len(bad) |-> Error("validation: failed to compile glob", <<>>, bad[i].In, <<>>)]

RECURSIVE MatchConfigurationsKeepingFirst(_, _, _, _, _)
\* The inner loop without "Don't allow duplicate matches": a repository stays
\* with the first configuration that matches it.
MatchConfigurationsKeepingFirst(spec, repoRev, ci, found, m) ==
    IF ci > Len(spec.Workspaces) THEN [found |-> found, matched |-> m, err |-> NoError]
    ELSE LET conf == spec.Workspaces[ci]
         IN IF ~GlobMatch(conf.In, repoRev.Repo.Name) \/ found
            THEN MatchConfigurationsKeepingFirst(spec, repoRev, ci + 1, found, m)
            ELSE MatchConfigurationsKeepingFirst(spec, repoRev, ci + 1, TRUE,
                    [i \in DOMAIN m \cup {ci} |->
                        IF i \in DOMAIN m THEN (IF i = ci THEN Append(m[i], repoRev) ELSE m[i])
                        ELSE <<repoRev>>])

RECURSIVE MatchConfigurations(_, _, _, _, _)
\* The inner loop of the partition: the configurations from ci on, tried on
\* one repository; a second match is an error.
MatchConfigurations(spec, repoRev, ci, found, m) ==
    IF ci > Len(spec.Workspaces) THEN [found |-> found, matched |-> m, err |-> NoError]
    ELSE LET conf == spec.Workspaces[ci]
         IN IF ~GlobMatch(conf.In, repoRev.Repo.Name)
            THEN MatchConfigurations(spec, repoRev, ci + 1, found, m)
            ELSE IF found
            THEN [found |-> found, matched |-> m,
                  err |-> Error("validation: repository matches multiple workspaces.in globs",
                                repoRev.Repo.Name, conf.In, <<>>)]
            ELSE MatchConfigurations(spec, repoRev, ci + 1, TRUE,
                    [i \in DOMAIN m \cup {ci} |->
                        IF i \in DOMAIN m THEN (IF i = ci THEN Append(m[i], repoRev) ELSE m[i])
                        ELSE <<repoRev>>])

RECURSIVE PartitionRepos(_, _, _, _, _)
\* The outer loop of the partition, from repository k on.
PartitionRepos(spec, revs, k, r, m) ==
    IF k > Len(revs) THEN [root |-> r, matched |-> m, err |-> NoError]
    ELSE LET res == MatchConfigurations(spec, revs[k], 1, FALSE, m)
         IN IF res.err # NoError THEN [root |-> r, matched |-> m, err |-> res.err]
            ELSE PartitionRepos(spec, revs, k + 1,
                                IF res.found THEN r ELSE Append(r, revs[k]), res.matched)

\* template.IsStaticBool on a step condition, for a repository.
IsStaticBool(cond, repoName) ==
    CASE cond = "true" -> [static |-> TRUE, boolVal |-> TRUE, err |-> FALSE]
      [] cond = "false" -> [static |-> TRUE, boolVal |-> FALSE, err |-> FALSE]
      [] cond = "repo is a/x" -> [static |-> TRUE, boolVal |-> repoName = RepoNames[1], err |-> FALSE]
      [] cond = "dynamic" -> [static |-> FALSE, boolVal |-> FALSE, err |-> FALSE]
      [] cond = "malformed" -> [static |-> FALSE, boolVal |-> FALSE, err |-> TRUE]

RECURSIVE StepsFromDroppingUndecided(_, _, _, _)
\* A loop that keeps a conditional step only when it is decided true.
StepsFromDroppingUndecided(spec, repoName, k, taskSteps) ==
    IF k > Len(spec.Steps) THEN [steps |-> taskSteps, err |-> NoError]
    ELSE LET step == spec.Steps[k]
         IN IF step.If = ""
            THEN StepsFromDroppingUndecided(spec, repoName, k + 1, Append(taskSteps, step))
            ELSE LET res == IsStaticBool(step.If, repoName)
                 IN IF res.err
                    THEN [steps |-> <<>>, err |-> Error("template", repoName, <<>>, <<>>)]
                    ELSE IF res.static /\ res.boolVal
                    THEN StepsFromDroppingUndecided(spec, repoName, k + 1, Append(taskSteps, step))
                    ELSE StepsFromDroppingUndecided(spec, repoName, k + 1, taskSteps)

RECURSIVE StepsFrom(_, _, _, _)
\* The loop of stepsForRepo from step k on.
StepsFrom(spec, repoName, k, taskSteps) ==
    IF k > Len(spec.Steps) THEN [steps |-> taskSteps, err |-> NoError]
    ELSE LET step == spec.Steps[k]
         IN IF step.If = ""
            THEN StepsFrom(spec, repoName, k + 1, Append(taskSteps, step))
            ELSE LET res == IsStaticBool(step.If, repoName)
                 IN IF res.err
                    THEN [steps |-> <<>>, err |-> Error("template", repoName, <<>>, <<>>)]
                    ELSE IF ~res.static \/ res.boolVal
                    THEN StepsFrom(spec, repoName, k + 1, Append(taskSteps, step))
                    ELSE StepsFrom(spec, repoName, k + 1, taskSteps)

stepsForRepo(spec, repoName, fileMatches) == StepsFrom(spec, repoName, 1, <<>>)


ReturnError(e) ==
    /\ fwErr' = e
    /\ workspaces' = <<>>
    /\ fwpc' = "done"

\* "Pre-compile all globs" and the loop that sorts the repositories into
\* root and matched.
PartitionWorkspaces ==
    /\ fwpc = "start"
    /\ LET compileErrors == CompileErrors(batchSpec)
           p == PartitionRepos(batchSpec, repoRevs, 1, <<>>, <<>>)
       IN IF compileErrors # <<>>
          THEN /\ ReturnError(Error("multierror", <<>>, <<>>, compileErrors))
               /\ UNCHANGED <<root, matched>>
          ELSE IF p.err # NoError
          THEN /\ ReturnError(p.err)
               /\ UNCHANGED <<root, matched>>
          ELSE /\ root' = p.root
               /\ matched' = p.matched
               /\ fwpc' = "search"
               /\ UNCHANGED <<fwErr, workspaces>>
    /\ UNCHANGED <<options, handlerVars, preDequeueVars, serviceVars, batchSpec, repoRevs, searched,
                   workspacesByRepoRev, finderCalls>>

\* What finder.FindDirectoriesInRepos can return for a list of repositories:
\* an error, or a directory list for every one of them.
FinderResults(revs) ==
    {[err |-> TRUE, dirs |-> <<>>]}
        \cup {[err |-> FALSE, dirs |-> d] : d \in [{Key(revs[i]) : i \in DOMAIN revs} -> DirLists]}

\* What findWorkspaces does with the return of FindDirectoriesInRepos for
\* configuration ci: the error e, or the map dirs from keys to directories.
RecordDirectories(ci, e, dirs) ==
    LET conf == batchSpec.Workspaces[ci]
        revs == matched[ci]
        repoRevsByKey == [k \in {Key(revs[i]) : i \in DOMAIN revs} |->
                             CHOOSE r \in Range(revs) : Key(r) = k]
    IN IF e # NoError
       THEN /\ ReturnError(e)
            /\ UNCHANGED <<workspacesByRepoRev, searched>>
       ELSE LET found == {k \in DOMAIN dirs : Len(dirs[k]) # 0}
            IN /\ workspacesByRepoRev' =
                     [k \in DOMAIN workspacesByRepoRev \cup found |->
                         IF k \in found
                         THEN [RepoRevision |-> repoRevsByKey[k], Paths |-> dirs[k],
                               OnlyFetchWorkspace |-> conf.OnlyFetchWorkspace]
                         ELSE workspacesByRepoRev[k]]
               /\ searched' = searched \cup {ci}
               /\ UNCHANGED <<fwErr, workspaces, fwpc>>

\* One iteration of the loop over matched (a map: any order): the directory
\* search for one workspace configuration, by a finder of any kind.
FindDirectories ==
    /\ fwpc = "search"
    /\ \E ci \in DOMAIN matched \ searched :
          /\ finderCalls' = Append(finderCalls, [fileName |-> batchSpec.Workspaces[ci].RootAtLocationOf,
                                                 repos |-> matched[ci]])
          /\ \E res \in FinderResults(matched[ci]) :
                RecordDirectories(ci,
                                  IF res.err THEN Error("FindDirectoriesInRepos", <<>>, <<>>, <<>>)
                                  ELSE NoError,
                                  res.dirs)
    /\ UNCHANGED <<options, handlerVars, preDequeueVars, serviceVars, batchSpec, repoRevs, root, matched>>

\* The root written as ".".
RootPathDot == <<".">>

\* The path of a workspace at the root of its repository: "".
RootPath == <<>>

RECURSIVE AddRoots(_, _, _)
\* "And add the root for repos": a repository without an entry gets one with
\* the root path; for one that has an entry the path is appended to a copy
\* of the entry, which the map does not see.
AddRoots(byRepoRev, r, k) ==
    IF k > Len(r) THEN byRepoRev
    ELSE IF Key(r[k]) \in DOMAIN byRepoRev
    THEN AddRoots(byRepoRev, r, k + 1)
    ELSE AddRoots([key \in DOMAIN byRepoRev \cup {Key(r[k])} |->
                      IF key = Key(r[k])
                      THEN [RepoRevision |-> r[k], Paths |-> <<RootPath>>, OnlyFetchWorkspace |-> FALSE]
                      ELSE byRepoRev[key]],
                  r, k + 1)

\* RepoWorkspaces that take the flag of their entry whatever the path.
WorkspacesOfKeepingFlag(entry, steps) ==
    [i \in 1..Len(entry.Paths) |->
        [RepoRevision |-> entry.RepoRevision,
         Path |-> entry.Paths[i],
         Steps |-> steps,
         OnlyFetchWorkspace |-> entry.OnlyFetchWorkspace,
         Ignored |-> FALSE,
         Unsupported |-> FALSE]]

\* The RepoWorkspaces of one repository, one per path.
WorkspacesOf(entry, steps) ==
    [i \in 1..Len(entry.Paths) |->
        [RepoRevision |-> entry.RepoRevision,
         Path |-> entry.Paths[i],
         Steps |-> steps,
         OnlyFetchWorkspace |-> IF entry.Paths[i] = <<>> THEN FALSE ELSE entry.OnlyFetchWorkspace,
         Ignored |-> FALSE,
         Unsupported |-> FALSE]]

RECURSIVE BuildWorkspaces(_, _, _, _, _)
\* The loop over workspacesByRepoRev in the given iteration order.
BuildWorkspaces(spec, byRepoRev, order, k, ws) ==
    IF k > Len(order) THEN [workspaces |-> ws, err |-> NoError]
    ELSE LET entry == byRepoRev[order[k]]
             res == stepsForRepo(spec, entry.RepoRevision.Repo.Name, entry.RepoRevision.FileMatches)
         IN IF res.err # NoError THEN [workspaces |-> <<>>, err |-> res.err]
            ELSE BuildWorkspaces(spec, byRepoRev, order, k + 1, ws \o WorkspacesOf(entry, res.steps))

\* The less function of the sort in findWorkspaces.
WorkspaceLess(a, b) ==
    IF a.RepoRevision.Repo.Name = b.RepoRevision.Repo.Name
    THEN StrLess(a.Path, b.Path)
    ELSE StrLess(a.RepoRevision.Repo.Name, b.RepoRevision.Repo.Name)

RECURSIVE SortedOrders(_, _)
\* The results sort.Slice can give for the elements at the remaining
\* indexes: sorted by WorkspaceLess, elements that are not ordered by it in
\* any order (sort.Slice is not stable).
SortedOrders(seq, remaining) ==
    IF remaining = {} THEN {<<>>}
    ELSE UNION { {<<seq[i]>> \o t : t \in SortedOrders(seq, remaining \ {i})} :
                   i \in {j \in remaining : \A k \in remaining : ~WorkspaceLess(seq[k], seq[j])} }

SortWorkspaces(seq) == SortedOrders(seq, DOMAIN seq)

\* The rest of findWorkspaces: roots, steps, one workspace per path, sort.
EmitWorkspaces ==
    /\ fwpc = "search"
    /\ DOMAIN matched \ searched = {}
    /\ LET byRepoRev == AddRoots(workspacesByRepoRev, root, 1)
       IN /\ workspacesByRepoRev' = byRepoRev
          /\ \E order \in Orders(DOMAIN byRepoRev) :
                LET built == BuildWorkspaces(batchSpec, byRepoRev, order, 1, <<>>)
                IN IF built.err # NoError
                   THEN ReturnError(built.err)
                   ELSE /\ \E sorted \in SortWorkspaces(built.workspaces) : workspaces' = sorted
                        /\ fwErr' = NoError
                        /\ fwpc' = "done"
    /\ UNCHANGED <<options, handlerVars, preDequeueVars, serviceVars, batchSpec, repoRevs, root, matched,
                   searched, finderCalls>>

InitWorkspaces ==
    /\ options \in [FirecrackerEnabled : {TRUE}, NumHandlers : {1},
                    MaximumRuntimePerJob : {1}, VMPrefix : {VMPrefix}]
    /\ HandlerInit
    /\ liveVMs = 0
    /\ pd = NoPreDequeue
    /\ batchSpec \in BatchSpecs \cup ManyConfigurations
    /\ repoRevs \in RepoRevLists
    /\ fwpc = "start"
    /\ root = <<>>
    /\ matched = <<>>
    /\ searched = {}
    /\ workspacesByRepoRev = <<>>
    /\ workspaces = <<>>
    /\ fwErr = NoError
    /\ finderCalls = <<>>
    /\ ServiceIdle

NextWorkspaces == PartitionWorkspaces \/ FindDirectories \/ EmitWorkspaces

SpecWorkspaces == InitWorkspaces /\ [][NextWorkspaces]_vars

\* ------------------------------------------------------------------------
\* setDefaultQueryCount
\* ------------------------------------------------------------------------
\* The pieces queries are put together from.
Fragments ==
    { <<"c", "o", "u", "n", "t", ":">>, <<"a", "l", "l">>, <<"5">>, <<"x">>, <<" ">>, <<"-">> }

RECURSIVE Flatten(_)
Flatten(seqs) == IF seqs = <<>> THEN <<>> ELSE Head(seqs) \o Flatten(Tail(seqs))

Queries == {Flatten(fs) : fs \in UNION {[1..n -> Fragments] : n \in 0..MaxFragments}}

\* The characters the regular expression classes \w and \d stand for.
WordChars ==
    {"5", "a", "b", "c", "d", "e", "f", "g", "l", "m", "n", "o", "r", "t", "u", "v", "w", "x"}
Digits == {"5"}

\* \b between s[i] and s[i + 1]: a word character on one side only.
WordBoundary(s, i) ==
    (i >= 1 /\ s[i] \in WordChars) # (i + 1 <= Len(s) /\ s[i + 1] \in WordChars)

\* s has the literal lit at position i.
LiteralAt(s, i, lit) == i + Len(lit) - 1 <= Len(s) /\ SubSeq(s, i, i + Len(lit) - 1) = lit

\* The expression without its closing \b.
MatchAtUnanchored(s, i) ==
    /\ WordBoundary(s, i - 1)
    /\ LiteralAt(s, i, <<"c", "o", "u", "n", "t", ":">>)
    /\ \/ \E n \in 1..(Len(s) - i - 5) : \A k \in (i + 6)..(i + 5 + n) : s[k] \in Digits
       \/ LiteralAt(s, i + 6, <<"a", "l", "l">>)

\* defaultQueryCountRegex, \bcount:(\d+|all)\b, matching from position i.
MatchAt(s, i) ==
    /\ WordBoundary(s, i - 1)
    /\ LiteralAt(s, i, <<"c", "o", "u", "n", "t", ":">>)
    /\ \/ \E n \in 1..(Len(s) - i - 5) :
            /\ \A k \in (i + 6)..(i + 5 + n) : s[k] \in Digits
            /\ WordBoundary(s, i + 5 + n)
       \/ /\ LiteralAt(s, i + 6, <<"a", "l", "l">>)
          /\ WordBoundary(s, i + 8)

\* regexp.MatchString: the expression matches somewhere.
MatchString(s) == \E i \in 1..Len(s) : MatchAt(s, i)

hardCodedCount == <<" ", "c", "o", "u", "n", "t", ":", "a", "l", "l">>

setDefaultQueryCount(q) == IF MatchString(q) THEN q ELSE q \o hardCodedCount

\* A call of setDefaultQueryCount on the query, then on what the call before
\* returned.
SetDefaultQueryCount ==
    /\ Len(counted) < MaxCalls
    /\ counted' = Append(counted, setDefaultQueryCount(IF counted = <<>> THEN query
                                                        ELSE counted[Len(counted)]))
    /\ UNCHANGED <<options, handlerVars, preDequeueVars, resolverVars, query, repositoryVars,
                   ignoreVars, finderVars, resolveVars>>

InitQueryCount ==
    /\ options \in [FirecrackerEnabled : {TRUE}, NumHandlers : {1},
                    MaximumRuntimePerJob : {1}, VMPrefix : {VMPrefix}]
    /\ HandlerInit
    /\ liveVMs = 0
    /\ pd = NoPreDequeue
    /\ ResolverIdle
    /\ query \in Queries
    /\ counted = <<>>
    /\ RepositoriesIdle
    /\ IgnoreIdle
    /\ FinderIdle
    /\ ResolveIdle

NextQueryCount == SetDefaultQueryCount

SpecQueryCount == InitQueryCount /\ [][NextQueryCount]_vars

\* ------------------------------------------------------------------------
\* determineRepositories
\* ------------------------------------------------------------------------
\* batcheslib.OnQueryOrRepository; "" is the empty sequence.
OnQueryOrRepository(q, repository, branch) ==
    [RepositoriesMatchingQuery |-> q, Repository |-> repository, Branch |-> branch]

\* The selectors of the batch specs: the query "x", a repository by name, a
\* repository by name on branch "d", and the selector with nothing set.
Selectors ==
    {OnQueryOrRepository(<<"x">>, <<>>, <<>>), OnQueryOrRepository(<<>>, <<>>, <<>>)}
        \cup {OnQueryOrRepository(<<>>, RepoNames[id], b) :
                 id \in 1..MaxRepos, b \in {<<>>, <<"d">>}}

SelectorLists == UNION {[1..n -> Selectors] : n \in 0..MaxSelectors}

\* streamhttp.EventMatch: a repository match, or a path match in a file.
EventMatch(kind, id, path) == [kind |-> kind, RepositoryID |-> id, Path |-> path]

EventMatches ==
    {EventMatch("repo", MaxRepos, <<>>), EventMatch("path", 1, <<"g">>),
     EventMatch("path", 1, <<"f">>)}

MatchLists == UNION {[1..n -> EventMatches] : n \in 0..MaxMatches}

\* What the outside answers about one repository: to Repos().GetByName
\* ("ok", "error"), to git.GetDefaultBranch (branch "m", no branch, an
\* error) and to git.ResolveRevision of branch "d" (a commit, a
\* RevisionNotFoundError, another error).
RepoWorlds ==
    {[getByName |-> "error", defaultBranch |-> "error", revision |-> "error"]}
        \cup [getByName : {"ok"}, defaultBranch : {"m", "none", "error"},
              revision : {"ok", "notfound", "error"}]

\* What the outside answers to the search for "x count:all": whether the
\* context carries an authenticated actor, whether the search fails, its
\* matches, and whether Repos().List fails.
SearchWorlds ==
    {[authenticated |-> a, err |-> TRUE, matches |-> <<>>, list |-> "error"] : a \in BOOLEAN}
        \cup [authenticated : {TRUE}, err : {FALSE}, matches : MatchLists, list : {"ok", "error"}]

\* git.Stat of .batchignore: no such file, a regular file, a directory, or
\* another failure.
StatWorlds == {"absent", "regular", "directory", "error"}

\* The commit of a repository's default branch and of its branch "d"; 0 is
\* the empty commit ID.
DefaultCommit(id) == id
BranchCommit(id) == MaxRepos + 2 + id
NoCommit == 0

Repo(id) == [ID |-> id, Name |-> RepoNames[id]]

RepoRevision(repo, branch, commit, fileMatches) ==
    [Repo |-> repo, Branch |-> branch, Commit |-> commit, FileMatches |-> fileMatches]

\* RepoRevision.HasBranch
HasBranch(r) == r.Branch # <<>>

\* What a resolving function returns, with the requests it has made.
Resolved(revs, e, reqs) == [revs |-> revs, err |-> e, requests |-> reqs]

Request(op, arg) == [op |-> op, arg |-> arg]

repoToRepoRevisionWithDefaultBranch(w, repo, fileMatches) ==
    LET answer == w.repo[repo.ID].defaultBranch
        reqs == <<Request("GetDefaultBranch", repo.ID)>>
    IN IF answer = "error"
       THEN Resolved(<<>>, Error("GetDefaultBranch", repo.Name, <<>>, <<>>), reqs)
       ELSE IF answer = "m"
       THEN Resolved(<<RepoRevision(repo, <<"m">>, DefaultCommit(repo.ID), fileMatches)>>,
                     NoError, reqs)
       ELSE Resolved(<<RepoRevision(repo, <<>>, NoCommit, fileMatches)>>, NoError, reqs)

\* Repos().GetByName: the repositories are looked up by their names.
GetByName(w, n) ==
    LET id == CHOOSE i \in 1..MaxRepos : RepoNames[i] = n
    IN [repo |-> Repo(id), err |-> w.repo[id].getByName = "error"]

resolveRepositoryName(w, n) ==
    LET got == GetByName(w, n)
        reqs == <<Request("GetByName", n)>>
    IN IF got.err THEN Resolved(<<>>, Error("GetByName", n, <<>>, <<>>), reqs)
       ELSE LET res == repoToRepoRevisionWithDefaultBranch(w, got.repo, <<>>)
            IN Resolved(res.revs, res.err, reqs \o res.requests)

resolveRepositoryNameAndBranch(w, n, branch) ==
    LET got == GetByName(w, n)
        reqs == <<Request("GetByName", n)>>
    IN IF got.err THEN Resolved(<<>>, Error("GetByName", n, <<>>, <<>>), reqs)
       ELSE LET answer == w.repo[got.repo.ID].revision
                all == Append(reqs, Request("ResolveRevision", got.repo.ID))
            IN IF answer = "notfound"
               THEN Resolved(<<>>, Error("no branch matching", n, branch, <<>>), all)
               ELSE Resolved(<<RepoRevision(got.repo, branch,
                                            IF answer = "ok" THEN BranchCommit(got.repo.ID)
                                            ELSE NoCommit,
                                            <<>>)>>,
                             NoError, all)

\* A search that does not look at the actor.
runSearchOfAnyActor(w, q) ==
    IF w.search.err
    THEN [err |-> Error("search", <<>>, <<>>, <<>>), matches |-> <<>>,
          requests |-> <<Request("search", q)>>]
    ELSE [err |-> NoError, matches |-> w.search.matches, requests |-> <<Request("search", q)>>]

\* runSearch: without an authenticated actor it fails before any request.
runSearch(w, q) ==
    IF ~w.search.authenticated
    THEN [err |-> Error("no user set in workspaceResolver.runSearch", <<>>, <<>>, <<>>),
          matches |-> <<>>, requests |-> <<>>]
    ELSE IF w.search.err
    THEN [err |-> Error("search", <<>>, <<>>, <<>>), matches |-> <<>>,
          requests |-> <<Request("search", q)>>]
    ELSE [err |-> NoError, matches |-> w.search.matches, requests |-> <<Request("search", q)>>]

\* The IDs in ascending order, as Repos().List returns the repositories.
RECURSIVE Ascending(_)
Ascending(S) ==
    IF S = {} THEN <<>>
    ELSE LET least == CHOOSE x \in S : \A y \in S : x <= y
         IN <<least>> \o Ascending(S \ {least})

\* The paths the search matched in a repository, collected in a map and
\* sorted.
FileMatchesOf(matches, id) ==
    LET paths == {matches[i].Path : i \in {k \in DOMAIN matches :
                                             /\ matches[k].RepositoryID = id
                                             /\ matches[k].kind # "repo"}}
    IN SortStrings(CHOOSE order \in Orders(paths) : TRUE)

RECURSIVE RevisionsOf(_, _, _, _, _)
\* The loop over accessibleRepos from index k on.
RevisionsOf(w, ids, matches, k, sofar) ==
    IF k > Len(ids) THEN sofar
    ELSE LET res == repoToRepoRevisionWithDefaultBranch(w, Repo(ids[k]),
                                                        FileMatchesOf(matches, ids[k]))
         IN IF res.err # NoError
            THEN Resolved(<<>>, res.err, sofar.requests \o res.requests)
            ELSE RevisionsOf(w, ids, matches, k + 1,
                             Resolved(sofar.revs \o res.revs, NoError,
                                      sofar.requests \o res.requests))

resolveRepositoriesMatchingQuery(w, q) ==
    LET found == runSearch(w, setDefaultQueryCount(q))
    IN IF found.err # NoError THEN Resolved(<<>>, found.err, found.requests)
       ELSE LET repoIDs == [i \in DOMAIN found.matches |-> found.matches[i].RepositoryID]
                reqs == Append(found.requests, Request("List", repoIDs))
            IN IF w.search.list = "error"
               THEN Resolved(<<>>, Error("List", <<>>, <<>>, <<>>), reqs)
               ELSE RevisionsOf(w, Ascending(Range(repoIDs)), found.matches, 1,
                                Resolved(<<>>, NoError, reqs))

ErrMalformedOnQueryOrRepository ==
    Error("validation: malformed 'on' field; missing either a repository name or a query",
          <<>>, <<>>, <<>>)

resolveRepositoriesOn(w, on) ==
    IF on.RepositoriesMatchingQuery # <<>>
    THEN resolveRepositoriesMatchingQuery(w, on.RepositoriesMatchingQuery)
    ELSE IF on.Repository # <<>> /\ on.Branch # <<>>
    THEN resolveRepositoryNameAndBranch(w, on.Repository, on.Branch)
    ELSE IF on.Repository # <<>>
    THEN resolveRepositoryName(w, on.Repository)
    ELSE Resolved(<<>>, ErrMalformedOnQueryOrRepository, <<>>)

\* errors.Wrapf(err, "resolving %q", on.String())
Resolving(e, on) == [kind |-> "resolving", on |-> on, cause |-> e]

RECURSIVE MergeFirstWins(_, _, _)
\* The loop over repos that leaves a repository it has seen as it is.
MergeFirstWins(s, revs, k) ==
    IF k > Len(revs) THEN s
    ELSE LET r == revs[k]
         IN IF ~HasBranch(r) \/ r.Repo.ID \in DOMAIN s THEN MergeFirstWins(s, revs, k + 1)
            ELSE MergeFirstWins([id \in DOMAIN s \cup {r.Repo.ID} |->
                                    IF id = r.Repo.ID THEN r ELSE s[id]], revs, k + 1)

RECURSIVE MergeSeenKeepingBranchless(_, _, _)
\* The loop over repos without "Skip repos where no branch exists".
MergeSeenKeepingBranchless(s, revs, k) ==
    IF k > Len(revs) THEN s
    ELSE LET r == revs[k]
         IN IF r.Repo.ID \notin DOMAIN s
            THEN MergeSeenKeepingBranchless([id \in DOMAIN s \cup {r.Repo.ID} |->
                                                IF id = r.Repo.ID THEN r ELSE s[id]], revs, k + 1)
            ELSE MergeSeenKeepingBranchless([s EXCEPT ![r.Repo.ID].Commit = r.Commit,
                                                      ![r.Repo.ID].Branch = r.Branch], revs, k + 1)

RECURSIVE MergeSeen(_, _, _)
\* The loop over the repos of one selector: those without a branch are
\* skipped, a new repository is recorded, one seen before gets the new
\* commit and branch.
MergeSeen(s, revs, k) ==
    IF k > Len(revs) THEN s
    ELSE LET r == revs[k]
         IN IF ~HasBranch(r) THEN MergeSeen(s, revs, k + 1)
            ELSE IF r.Repo.ID \notin DOMAIN s
            THEN MergeSeen([id \in DOMAIN s \cup {r.Repo.ID} |->
                               IF id = r.Repo.ID THEN r ELSE s[id]], revs, k + 1)
            ELSE MergeSeen([s EXCEPT ![r.Repo.ID].Commit = r.Commit,
                                     ![r.Repo.ID].Branch = r.Branch], revs, k + 1)

\* An iteration of the loop that ends the loop when the selector fails.
DetermineSelectorStoppingAtError ==
    /\ rpc = "determine"
    /\ onIdx <= Len(batchSpec.On)
    /\ LET on == batchSpec.On[onIdx]
           res == resolveRepositoriesOn(world, on)
       IN /\ requests' = (Append(requests, Request("resolveRepositoriesOn", onIdx))) \o res.requests
          /\ IF res.err # NoError
             THEN /\ drErrs' = Append(drErrs, Resolving(res.err, on))
                  /\ onIdx' = Len(batchSpec.On) + 1
                  /\ UNCHANGED seen
             ELSE /\ seen' = MergeSeen(seen, res.revs, 1)
                  /\ onIdx' = onIdx + 1
                  /\ UNCHANGED drErrs
    /\ UNCHANGED <<options, handlerVars, preDequeueVars, resolverVars, queryVars, finderVars, resolveVars, world, rpc,
                   repos, reposErr, ignoreVars>>

\* One iteration of the loop over batchSpec.On.
DetermineSelector ==
    /\ rpc = "determine"
    /\ onIdx <= Len(batchSpec.On)
    /\ LET on == batchSpec.On[onIdx]
           res == resolveRepositoriesOn(world, on)
       IN /\ requests' = (Append(requests, Request("resolveRepositoriesOn", onIdx))) \o res.requests
          /\ IF res.err # NoError
             THEN /\ drErrs' = Append(drErrs, Resolving(res.err, on))
                  /\ UNCHANGED seen
             ELSE /\ seen' = MergeSeen(seen, res.revs, 1)
                  /\ UNCHANGED drErrs
    /\ onIdx' = onIdx + 1
    /\ UNCHANGED <<options, handlerVars, preDequeueVars, resolverVars, queryVars, finderVars, resolveVars, world, rpc,
                   repos, reposErr, ignoreVars>>

\* The return of determineRepositories: the RepoRevisions of the map, in the
\* order its iteration takes, and the errors.
DetermineReturn ==
    /\ rpc = "determine"
    /\ onIdx > Len(batchSpec.On)
    /\ \E order \in Orders(DOMAIN seen) : repos' = [i \in DOMAIN order |-> seen[order[i]]]
    /\ reposErr' = IF drErrs = <<>> THEN NoError ELSE Error("multierror", <<>>, <<>>, drErrs)
    /\ rpc' = "determined"
    /\ UNCHANGED <<options, handlerVars, preDequeueVars, resolverVars, queryVars, finderVars, resolveVars, world, onIdx,
                   seen, drErrs, requests, ignoreVars>>

\* The worlds in which only the answers to the selectors vary.
RepositoryWorlds ==
    [repo : [1..MaxRepos -> RepoWorlds], search : SearchWorlds,
     stat : [1..MaxRepos -> {"absent"}], find : [1..MaxRepos -> {[err |-> FALSE, paths |-> <<>>]}]]

InitRepositories ==
    /\ options \in [FirecrackerEnabled : {TRUE}, NumHandlers : {1},
                    MaximumRuntimePerJob : {1}, VMPrefix : {VMPrefix}]
    /\ HandlerInit
    /\ liveVMs = 0
    /\ pd = NoPreDequeue
    /\ batchSpec \in [On : SelectorLists, Workspaces : {<<>>}, Steps : {<<>>}]
    /\ repoRevs = <<>>
    /\ fwpc = "idle"
    /\ root = <<>>
    /\ matched = <<>>
    /\ searched = {}
    /\ workspacesByRepoRev = <<>>
    /\ workspaces = <<>>
    /\ fwErr = NoError
    /\ finderCalls = <<>>
    /\ QueryIdle
    /\ world \in RepositoryWorlds
    /\ rpc = "determine"
    /\ onIdx = 1
    /\ seen = <<>>
    /\ drErrs = <<>>
    /\ repos = <<>>
    /\ reposErr = NoError
    /\ requests = <<>>
    /\ IgnoreIdle
    /\ FinderIdle
    /\ ResolveIdle

NextRepositories == DetermineSelector \/ DetermineReturn

SpecRepositories == InitRepositories /\ [][NextRepositories]_vars

\* ------------------------------------------------------------------------
\* findIgnoredRepositories
\* ------------------------------------------------------------------------
\* The goroutines that read the input channel.
IgnoreWorkers == 5

\* hasBatchIgnoreFile taking every file that exists for a regular one.
hasBatchIgnoreFileOfAnyMode(w, r) ==
    LET answer == w.stat[r.Repo.ID]
    IN IF answer = "absent" THEN [hasBatchIgnore |-> FALSE, err |-> NoError]
       ELSE IF answer = "error"
       THEN [hasBatchIgnore |-> FALSE, err |-> Error("Stat", r.Repo.Name, <<>>, <<>>)]
       ELSE [hasBatchIgnore |-> TRUE, err |-> NoError]

\* hasBatchIgnoreFile: what git.Stat of .batchignore says of the repository
\* at its commit.
hasBatchIgnoreFile(w, r) ==
    LET answer == w.stat[r.Repo.ID]
    IN IF answer = "absent" THEN [hasBatchIgnore |-> FALSE, err |-> NoError]
       ELSE IF answer = "error"
       THEN [hasBatchIgnore |-> FALSE, err |-> Error("Stat", r.Repo.Name, <<>>, <<>>)]
       ELSE IF answer = "directory"
       THEN [hasBatchIgnore |-> FALSE, err |-> Error("not a blob", r.Repo.Name, <<>>, <<>>)]
       ELSE [hasBatchIgnore |-> TRUE, err |-> NoError]

\* input <- repo, for the next repository of the list.
IgnoreSend ==
    /\ rpc = "ignore"
    /\ igpc = "send"
    /\ sendIdx <= Len(repos)
    /\ input' = Append(input, sendIdx)
    /\ sendIdx' = sendIdx + 1
    /\ UNCHANGED <<options, handlerVars, preDequeueVars, resolverVars, queryVars, finderVars, resolveVars, repositoryVars,
                   igpc, inputClosed, results, resultsClosed, checking, exited, ignored, igErrs,
                   igErr>>

\* close(input), after the last repository was sent.
IgnoreCloseInput ==
    /\ rpc = "ignore"
    /\ igpc = "send"
    /\ sendIdx > Len(repos)
    /\ inputClosed' = TRUE
    /\ igpc' = "collect"
    /\ UNCHANGED <<options, handlerVars, preDequeueVars, resolverVars, queryVars, finderVars, resolveVars, repositoryVars,
                   sendIdx, input, results, resultsClosed, checking, exited, ignored, igErrs,
                   igErr>>

\* A worker that is not checking takes the next repository from input.
WorkerReceive ==
    /\ rpc = "ignore"
    /\ igpc \in {"send", "collect"}
    /\ input # <<>>
    /\ Cardinality(checking) + exited < IgnoreWorkers
    /\ checking' = checking \cup {Head(input)}
    /\ input' = Tail(input)
    /\ UNCHANGED <<options, handlerVars, preDequeueVars, resolverVars, queryVars, finderVars, resolveVars, repositoryVars,
                   igpc, sendIdx, inputClosed, results, resultsClosed, exited, ignored, igErrs,
                   igErr>>

\* A worker finishes its check and sends the result; the results channel
\* has room for one result per repository.
WorkerCheck ==
    /\ rpc = "ignore"
    /\ \E i \in checking :
          LET res == hasBatchIgnoreFile(world, repos[i])
          IN /\ results' = Append(results, [repo |-> repos[i], hasBatchIgnore |-> res.hasBatchIgnore,
                                           err |-> res.err])
             /\ requests' = Append(requests, Request("Stat", repos[i].Repo.ID))
             /\ checking' = checking \ {i}
    /\ UNCHANGED <<options, handlerVars, preDequeueVars, resolverVars, queryVars, finderVars, resolveVars, world, rpc,
                   onIdx, seen, drErrs, repos, reposErr, igpc, sendIdx, input, inputClosed,
                   resultsClosed, exited, ignored, igErrs, igErr>>

\* A worker that is not checking finds input closed and drained, and
\* returns.
WorkerExit ==
    /\ rpc = "ignore"
    /\ inputClosed
    /\ input = <<>>
    /\ Cardinality(checking) + exited < IgnoreWorkers
    /\ exited' = exited + 1
    /\ UNCHANGED <<options, handlerVars, preDequeueVars, resolverVars, queryVars, finderVars, resolveVars, repositoryVars,
                   igpc, sendIdx, input, inputClosed, results, resultsClosed, checking, ignored,
                   igErrs, igErr>>

\* close(results) as soon as one worker has returned.
CloseResultsAfterFirstWorker ==
    /\ rpc = "ignore"
    /\ exited >= 1
    /\ ~resultsClosed
    /\ resultsClosed' = TRUE
    /\ UNCHANGED <<options, handlerVars, preDequeueVars, resolverVars, queryVars, finderVars, resolveVars, repositoryVars,
                   igpc, sendIdx, input, inputClosed, results, checking, exited, ignored, igErrs,
                   igErr>>

\* wg.Wait() has returned in the closing goroutine: close(results).
CloseResults ==
    /\ rpc = "ignore"
    /\ exited = IgnoreWorkers
    /\ ~resultsClosed
    /\ resultsClosed' = TRUE
    /\ UNCHANGED <<options, handlerVars, preDequeueVars, resolverVars, queryVars, finderVars, resolveVars, repositoryVars,
                   igpc, sendIdx, input, inputClosed, results, checking, exited, ignored, igErrs,
                   igErr>>

\* One iteration of the loop over the results channel.
CollectResult ==
    /\ rpc = "ignore"
    /\ igpc = "collect"
    /\ results # <<>>
    /\ LET result == Head(results)
       IN IF result.err # NoError
          THEN /\ igErrs' = Append(igErrs, result.err)
               /\ UNCHANGED ignored
          ELSE /\ ignored' = IF result.hasBatchIgnore THEN ignored \cup {result.repo.Repo.ID}
                              ELSE ignored
               /\ UNCHANGED igErrs
    /\ results' = Tail(results)
    /\ UNCHANGED <<options, handlerVars, preDequeueVars, resolverVars, queryVars, finderVars, resolveVars, repositoryVars,
                   igpc, sendIdx, input, inputClosed, resultsClosed, checking, exited, igErr>>

\* The results channel is closed and drained: return ignored and
\* errs.ErrorOrNil().
IgnoreReturn ==
    /\ rpc = "ignore"
    /\ igpc = "collect"
    /\ results = <<>>
    /\ resultsClosed
    /\ igErr' = IF igErrs = <<>> THEN NoError ELSE Error("multierror", <<>>, <<>>, igErrs)
    /\ igpc' = "done"
    /\ UNCHANGED <<options, handlerVars, preDequeueVars, resolverVars, queryVars, finderVars, resolveVars, repositoryVars,
                   sendIdx, input, inputClosed, results, resultsClosed, checking, exited, ignored,
                   igErrs>>

findIgnoredRepositories ==
    \/ IgnoreSend
    \/ IgnoreCloseInput
    \/ WorkerReceive
    \/ WorkerCheck
    \/ WorkerExit
    \/ CloseResults
    \/ CollectResult
    \/ IgnoreReturn

\* The worlds in which only the answers about .batchignore vary.
IgnoreWorlds ==
    [repo : [1..MaxRepos -> {[getByName |-> "ok", defaultBranch |-> "m", revision |-> "ok"]}],
     search : {[authenticated |-> TRUE, err |-> FALSE, matches |-> <<>>, list |-> "ok"]},
     stat : [1..MaxRepos -> StatWorlds],
     find : [1..MaxRepos -> {[err |-> FALSE, paths |-> <<>>]}]]

InitIgnored ==
    /\ options \in [FirecrackerEnabled : {TRUE}, NumHandlers : {1},
                    MaximumRuntimePerJob : {1}, VMPrefix : {VMPrefix}]
    /\ HandlerInit
    /\ liveVMs = 0
    /\ pd = NoPreDequeue
    /\ ResolverIdle
    /\ QueryIdle
    /\ world \in IgnoreWorlds
    /\ rpc = "ignore"
    /\ onIdx = 0
    /\ seen = <<>>
    /\ drErrs = <<>>
    /\ repos \in RepoRevLists
    /\ reposErr = NoError
    /\ requests = <<>>
    /\ igpc = "send"
    /\ sendIdx = 1
    /\ input = <<>>
    /\ inputClosed = FALSE
    /\ results = <<>>
    /\ resultsClosed = FALSE
    /\ checking = {}
    /\ exited = 0
    /\ ignored = {}
    /\ igErrs = <<>>
    /\ igErr = NoError
    /\ FinderIdle
    /\ ResolveIdle

NextIgnored == findIgnoredRepositories

SpecIgnored == InitIgnored /\ [][NextIgnored]_vars

\* The first n of MaxChecks repositories, each with its default branch.
NumberedRepoRevs(n) ==
    [i \in 1..n |->
        RepoRevision([ID |-> i, Name |-> <<"r">> \o [k \in 1..i |-> "x"]], <<"m">>, i, <<>>)]

\* The worlds of the numbered repositories: none has a .batchignore, or the
\* first one has one, or its check fails.
PoolWorlds ==
    {[repo |-> <<>>, search |-> <<>>, find |-> <<>>,
      stat |-> [id \in 1..MaxChecks |-> IF id = 1 THEN st ELSE "absent"]] :
        st \in {"absent", "regular", "error"}}

\* findIgnoredRepositories is called with no repository, with some, and
\* with more repositories than it has workers.
InitIgnorePool ==
    /\ options \in [FirecrackerEnabled : {TRUE}, NumHandlers : {1},
                    MaximumRuntimePerJob : {1}, VMPrefix : {VMPrefix}]
    /\ HandlerInit
    /\ liveVMs = 0
    /\ pd = NoPreDequeue
    /\ ResolverIdle
    /\ QueryIdle
    /\ world \in PoolWorlds
    /\ rpc = "ignore"
    /\ onIdx = 0
    /\ seen = <<>>
    /\ drErrs = <<>>
    /\ repos \in {NumberedRepoRevs(n) : n \in {0, 1, MaxChecks}}
    /\ reposErr = NoError
    /\ requests = <<>>
    /\ igpc = "send"
    /\ sendIdx = 1
    /\ input = <<>>
    /\ inputClosed = FALSE
    /\ results = <<>>
    /\ resultsClosed = FALSE
    /\ checking = {}
    /\ exited = 0
    /\ ignored = {}
    /\ igErrs = <<>>
    /\ igErr = NoError
    /\ FinderIdle
    /\ ResolveIdle

\* A goroutine that can take a step takes one in the end: the producer and
\* the collector, the workers, the closing goroutine.
SpecIgnorePool == InitIgnorePool /\ [][NextIgnored]_vars /\ WF_vars(NextIgnored)

\* ------------------------------------------------------------------------
\* FindDirectoriesInRepos
\* ------------------------------------------------------------------------
\* The permits of the sem channel.
FinderPermits == 10

\* The paths of marker files a directory search can match: "g" at the root
\* and "m/g".
MatchPaths == { <<"g">>, <<"m", "/", "g">> }

PathLists == UNION {[1..n -> MatchPaths] : n \in 0..MaxDirs}

\* What the search service answers to the directory search in a repository.
FindWorlds == {[err |-> TRUE, paths |-> <<>>]} \cup [err : {FALSE}, paths : PathLists]

\* path.Dir: the path up to its last separator, cleaned.
Dir(p) ==
    LET slashes == {i \in DOMAIN p : p[i] = "/"}
    IN IF slashes = {} THEN Clean(<<>>)
       ELSE Clean(SubSeq(p, 1, CHOOSE i \in slashes : \A j \in slashes : j <= i))

\* The directory of a match as path.Dir gives it.
DirectoryWithDot(p) == Dir(p)

\* The directory of a match: "." is the root, which is written "".
Directory(p) == IF Dir(p) = <<".">> THEN <<>> ELSE Dir(p)

\* findForRepoRev: the search for the marker file in one repository.
findForRepoRev(w, repoRev, fileName) ==
    LET q == [file |-> fileName, repo |-> repoRev.Repo.Name, commit |-> repoRev.Commit]
    IN IF ~w.search.authenticated
       THEN [err |-> Error("no user set in workspaceResolver.runSearch", <<>>, <<>>, <<>>),
             results |-> <<>>, requests |-> <<>>]
       ELSE IF w.find[repoRev.Repo.ID].err
       THEN [err |-> Error("search", repoRev.Repo.Name, <<>>, <<>>), results |-> <<>>,
             requests |-> <<Request("search", q)>>]
       ELSE [err |-> NoError,
             results |-> [i \in DOMAIN w.find[repoRev.Repo.ID].paths |->
                             Directory(w.find[repoRev.Repo.ID].paths[i])],
             requests |-> <<Request("search", q)>>]

\* findWorkspaces calls FindDirectoriesInRepos for a configuration: the
\* sem channel is filled with its permits.
FindBegin ==
    /\ rpc = "find"
    /\ fwpc = "search"
    /\ fdpc = "idle"
    /\ \E ci \in DOMAIN matched \ searched :
          /\ fdConf' = ci
          /\ finderCalls' = Append(finderCalls, [fileName |-> batchSpec.Workspaces[ci].RootAtLocationOf,
                                                 repos |-> matched[ci]])
    /\ fdpc' = "spawn"
    /\ fdIdx' = 1
    /\ sem' = FinderPermits
    /\ gor' = <<>>
    /\ fdResults' = <<>>
    /\ fdErrs' = <<>>
    /\ UNCHANGED <<options, handlerVars, preDequeueVars, queryVars, repositoryVars, ignoreVars,
                   resolveVars, batchSpec, repoRevs, fwpc, root, matched, searched,
                   workspacesByRepoRev, workspaces, fwErr>>

\* <-sem and the go statement for the next repository.
FindSpawn ==
    /\ fdpc = "spawn"
    /\ fdIdx <= Len(matched[fdConf])
    /\ sem > 0
    /\ sem' = sem - 1
    /\ gor' = Append(gor, [pc |-> "search", dirs |-> <<>>, err |-> NoError, errs |-> <<>>])
    /\ fdIdx' = fdIdx + 1
    /\ UNCHANGED <<options, handlerVars, preDequeueVars, resolverVars, queryVars, repositoryVars,
                   ignoreVars, resolveVars, fdpc, fdConf, fdResults, fdErrs>>

\* The loop over repos is over.
FindSpawned ==
    /\ fdpc = "spawn"
    /\ fdIdx > Len(matched[fdConf])
    /\ fdpc' = "wait"
    /\ UNCHANGED <<options, handlerVars, preDequeueVars, resolverVars, queryVars, repositoryVars,
                   ignoreVars, resolveVars, fdConf, fdIdx, sem, gor, fdResults, fdErrs>>

\* A goroutine runs findForRepoRev.
GoSearch(i) ==
    /\ gor[i].pc = "search"
    /\ LET res == findForRepoRev(world, matched[fdConf][i],
                                  batchSpec.Workspaces[fdConf].RootAtLocationOf)
       IN /\ gor' = [gor EXCEPT ![i] = [pc |-> IF res.err # NoError THEN "readErrs" ELSE "store",
                                          dirs |-> res.results, err |-> res.err, errs |-> <<>>]]
          /\ requests' = requests \o res.requests
    /\ UNCHANGED <<options, handlerVars, preDequeueVars, resolverVars, queryVars, world, rpc,
                   onIdx, seen, drErrs, repos, reposErr, ignoreVars, resolveVars, fdpc, fdConf,
                   fdIdx, sem, fdResults, fdErrs>>

\* errs = multierror.Append(errs, err), without the mutex: the goroutine
\* reads errs ...
GoReadErrs(i) ==
    /\ gor[i].pc = "readErrs"
    /\ gor' = [gor EXCEPT ![i].pc = "writeErrs", ![i].errs = fdErrs]
    /\ UNCHANGED <<options, handlerVars, preDequeueVars, resolverVars, queryVars, repositoryVars,
                   ignoreVars, resolveVars, fdpc, fdConf, fdIdx, sem, fdResults, fdErrs>>

\* ... and writes what it read with its error appended.
GoWriteErrs(i) ==
    /\ gor[i].pc = "writeErrs"
    /\ fdErrs' = Append(gor[i].errs, gor[i].err)
    /\ gor' = [gor EXCEPT ![i].pc = "release"]
    /\ UNCHANGED <<options, handlerVars, preDequeueVars, resolverVars, queryVars, repositoryVars,
                   ignoreVars, resolveVars, fdpc, fdConf, fdIdx, sem, fdResults>>

\* results[repoRev.Key()] = result, under the mutex.
GoStore(i) ==
    /\ gor[i].pc = "store"
    /\ LET key == Key(matched[fdConf][i])
       IN fdResults' = [k \in DOMAIN fdResults \cup {key} |->
                           IF k = key THEN gor[i].dirs ELSE fdResults[k]]
    /\ gor' = [gor EXCEPT ![i].pc = "release"]
    /\ UNCHANGED <<options, handlerVars, preDequeueVars, resolverVars, queryVars, repositoryVars,
                   ignoreVars, resolveVars, fdpc, fdConf, fdIdx, sem, fdErrs>>

\* The deferred sem <- struct{}{}.
GoRelease(i) ==
    /\ gor[i].pc = "release"
    /\ sem' = sem + 1
    /\ gor' = [gor EXCEPT ![i].pc = "finished"]
    /\ UNCHANGED <<options, handlerVars, preDequeueVars, resolverVars, queryVars, repositoryVars,
                   ignoreVars, resolveVars, fdpc, fdConf, fdIdx, fdResults, fdErrs>>

\* A return without "Wait for all to finish".
FindEndWithoutWaiting ==
    /\ fdpc = "wait"
    /\ RecordDirectories(fdConf,
                         IF fdErrs = <<>> THEN NoError ELSE Error("multierror", <<>>, <<>>, fdErrs),
                         fdResults)
    /\ fdpc' = "idle"
    /\ sem' = 0
    /\ UNCHANGED <<options, handlerVars, preDequeueVars, queryVars, repositoryVars, ignoreVars,
                   resolveVars, fdConf, fdIdx, gor, fdResults, fdErrs, batchSpec, repoRevs, root,
                   matched, finderCalls>>

\* "Wait for all to finish": the ten receives from sem, taken as one step
\* at the moment the last of them can be done, when every permit is back.
\* FindDirectoriesInRepos returns results and errs, and findWorkspaces goes
\* on with them.
FindEnd ==
    /\ fdpc = "wait"
    /\ sem = FinderPermits
    /\ RecordDirectories(fdConf,
                         IF fdErrs = <<>> THEN NoError ELSE Error("multierror", <<>>, <<>>, fdErrs),
                         fdResults)
    /\ fdpc' = "idle"
    /\ sem' = 0
    /\ UNCHANGED <<options, handlerVars, preDequeueVars, queryVars, repositoryVars, ignoreVars,
                   resolveVars, fdConf, fdIdx, gor, fdResults, fdErrs, batchSpec, repoRevs, root,
                   matched, finderCalls>>

FindDirectoriesInRepos ==
    \/ FindBegin
    \/ FindSpawn
    \/ FindSpawned
    \/ \E i \in DOMAIN gor : GoSearch(i) \/ GoReadErrs(i) \/ GoWriteErrs(i) \/ GoStore(i) \/ GoRelease(i)
    \/ FindEnd

\* The body of a goroutine in one step: findForRepoRev, the result stored
\* or the error appended, and the deferred sem <- struct{}{}. Between the go
\* statement and this step the request of the goroutine is in flight.
GoRun(i) ==
    /\ gor[i].pc = "search"
    /\ LET res == findForRepoRev(world, matched[fdConf][i],
                                  batchSpec.Workspaces[fdConf].RootAtLocationOf)
           key == Key(matched[fdConf][i])
       IN /\ requests' = requests \o res.requests
          /\ IF res.err # NoError
             THEN /\ fdErrs' = Append(fdErrs, res.err)
                  /\ UNCHANGED fdResults
             ELSE /\ fdResults' = [k \in DOMAIN fdResults \cup {key} |->
                                      IF k = key THEN res.results ELSE fdResults[k]]
                  /\ UNCHANGED fdErrs
          /\ gor' = [gor EXCEPT ![i] = [pc |-> "finished", dirs |-> res.results, err |-> res.err,
                                         errs |-> <<>>]]
    /\ sem' = sem + 1
    /\ UNCHANGED <<options, handlerVars, preDequeueVars, resolverVars, queryVars, world, rpc,
                   onIdx, seen, drErrs, repos, reposErr, ignoreVars, resolveVars, fdpc, fdConf,
                   fdIdx>>

\* The worlds of the numbered repositories: every directory search finds a
\* marker file at the root, or the search of the first repository fails,
\* or the context has no actor and no search is made.
FinderPoolWorlds ==
    {[repo |-> <<>>, stat |-> <<>>,
      search |-> [authenticated |-> a, err |-> FALSE, matches |-> <<>>, list |-> "ok"],
      find |-> [id \in 1..MaxSearched |->
                   IF id = 1 THEN f ELSE [err |-> FALSE, paths |-> << <<"g">> >>]]] :
        a \in BOOLEAN,
        f \in {[err |-> TRUE, paths |-> <<>>], [err |-> FALSE, paths |-> << <<"g">> >>]}}

\* findWorkspaces is about to call FindDirectoriesInRepos for its only
\* workspace configuration, which matched one repository or two, or more
\* repositories than there are permits (then with a context without actor).
InitFinderPool ==
    /\ options \in [FirecrackerEnabled : {TRUE}, NumHandlers : {1},
                    MaximumRuntimePerJob : {1}, VMPrefix : {VMPrefix}]
    /\ HandlerInit
    /\ liveVMs = 0
    /\ pd = NoPreDequeue
    /\ batchSpec = [On |-> <<>>, Steps |-> <<>>,
                    Workspaces |-> <<[In |-> <<"*">>, RootAtLocationOf |-> "go.mod",
                                      OnlyFetchWorkspace |-> FALSE]>>]
    /\ repoRevs \in {NumberedRepoRevs(n) : n \in {1, 2, MaxSearched}}
    /\ fwpc = "search"
    /\ root = <<>>
    /\ matched = <<repoRevs>>
    /\ searched = {}
    /\ workspacesByRepoRev = <<>>
    /\ workspaces = <<>>
    /\ fwErr = NoError
    /\ finderCalls = <<>>
    /\ QueryIdle
    /\ world \in FinderPoolWorlds
    /\ Len(repoRevs) > 2 => (~world.search.authenticated /\ ~world.find[1].err)
    /\ rpc = "find"
    /\ onIdx = 0
    /\ seen = <<>>
    /\ drErrs = <<>>
    /\ repos = repoRevs
    /\ reposErr = NoError
    /\ requests = <<>>
    /\ IgnoreIdle
    /\ FinderIdle
    /\ ResolveIdle

NextFinderPool ==
    \/ FindBegin
    \/ FindSpawn
    \/ FindSpawned
    \/ \E i \in DOMAIN gor : GoRun(i)
    \/ FindEnd

\* A goroutine that can take a step takes one in the end.
SpecFinderPool == InitFinderPool /\ [][NextFinderPool]_vars /\ WF_vars(NextFinderPool)

\* ------------------------------------------------------------------------
\* ResolveWorkspacesForBatchSpec
\* ------------------------------------------------------------------------
\* The code host of a repository (Repo.ExternalRepo.ServiceType): the first
\* repository is on GitHub, the others on Perforce.
ServiceType(repo) == IF repo.ID = 1 THEN "github" ELSE "perforce"

\* extsvc.TypeToKind
TypeToKind(serviceType) == IF serviceType = "github" THEN "GITHUB" ELSE "PERFORCE"

\* btypes.IsKindSupported: the code host kinds that support batch changes.
IsKindSupported(kind) == kind = "GITHUB"

\* "Finally, tag the workspaces": Unsupported and Ignored.
Tag(ws, ignoredRepos) ==
    [i \in DOMAIN ws |->
        [ws[i] EXCEPT !.Unsupported = ~IsKindSupported(TypeToKind(ServiceType(ws[i].RepoRevision.Repo))),
                      !.Ignored = ws[i].RepoRevision.Repo.ID \in ignoredRepos]]

\* A less function that compares the repository names only.
ResolveLessByName(a, b) == StrLess(a.RepoRevision.Repo.Name, b.RepoRevision.Repo.Name)

\* A less function that puts the greater repository name first.
ResolveLessDescending(a, b) ==
    IF a.RepoRevision.Repo.Name # b.RepoRevision.Repo.Name
    THEN StrLess(b.RepoRevision.Repo.Name, a.RepoRevision.Repo.Name)
    ELSE IF a.Path # b.Path THEN StrLess(a.Path, b.Path)
    ELSE StrLess(a.RepoRevision.Branch, b.RepoRevision.Branch)

\* The less function of the sort in ResolveWorkspacesForBatchSpec.
ResolveLess(a, b) ==
    IF a.RepoRevision.Repo.Name # b.RepoRevision.Repo.Name
    THEN StrLess(a.RepoRevision.Repo.Name, b.RepoRevision.Repo.Name)
    ELSE IF a.Path # b.Path THEN StrLess(a.Path, b.Path)
    ELSE StrLess(a.RepoRevision.Branch, b.RepoRevision.Branch)

RECURSIVE ResolveSortedOrders(_, _)
\* The results sort.Slice can give with ResolveLess (it is not stable).
ResolveSortedOrders(seq, remaining) ==
    IF remaining = {} THEN {<<>>}
    ELSE UNION { {<<seq[i]>> \o t : t \in ResolveSortedOrders(seq, remaining \ {i})} :
                   i \in {j \in remaining : \A k \in remaining : ~ResolveLess(seq[k], seq[j])} }

SortResolved(seq) == ResolveSortedOrders(seq, DOMAIN seq)

\* What one call returned.
Returned(ws, e, reqs, fc) == [workspaces |-> ws, err |-> e, requests |-> reqs, finderCalls |-> fc]

ReturnResolved(ws, e) ==
    /\ resolved' = ws
    /\ resolveErr' = e
    /\ returned' = Append(returned, Returned(ws, e, requests, finderCalls))
    /\ rpc' = "done"

\* determineRepositories has returned: its error ends the call.
CheckRepositories ==
    /\ rpc = "determined"
    /\ IF reposErr # NoError
       THEN /\ ReturnResolved(<<>>, reposErr)
            /\ UNCHANGED <<igpc, sendIdx>>
       ELSE /\ rpc' = "ignore"
            /\ igpc' = "send"
            /\ sendIdx' = 1
            /\ UNCHANGED resolveVars
    /\ UNCHANGED <<options, handlerVars, preDequeueVars, resolverVars, queryVars, finderVars, world,
                   onIdx, seen, drErrs, repos, reposErr, requests, input, inputClosed, results,
                   resultsClosed, checking, exited, ignored, igErrs, igErr>>

\* findIgnoredRepositories has returned: its error ends the call, otherwise
\* findWorkspaces is called with repos.
CheckIgnored ==
    /\ rpc = "ignore"
    /\ igpc = "done"
    /\ IF igErr # NoError
       THEN /\ ReturnResolved(<<>>, igErr)
            /\ UNCHANGED <<repoRevs, fwpc>>
       ELSE /\ rpc' = "find"
            /\ repoRevs' = repos
            /\ fwpc' = "start"
            /\ UNCHANGED resolveVars
    /\ UNCHANGED <<options, handlerVars, preDequeueVars, queryVars, finderVars, ignoreVars, world,
                   onIdx, seen, drErrs, repos, reposErr, requests, batchSpec, root, matched,
                   searched, workspacesByRepoRev, workspaces, fwErr, finderCalls>>

\* findWorkspaces has returned: its error ends the call, otherwise the
\* workspaces are tagged, sorted and returned.
ResolveReturn ==
    /\ rpc = "find"
    /\ fwpc = "done"
    /\ IF fwErr # NoError
       THEN ReturnResolved(<<>>, fwErr)
       ELSE \E sorted \in SortResolved(Tag(workspaces, ignored)) : ReturnResolved(sorted, NoError)
    /\ UNCHANGED <<options, handlerVars, preDequeueVars, resolverVars, queryVars, finderVars,
                   ignoreVars, world, onIdx, seen, drErrs, repos, reposErr, requests>>

\* The next call, with the same batch spec and the same external state.
ResolveAgain ==
    /\ rpc = "done"
    /\ Len(returned) < MaxRuns
    /\ rpc' = "determine"
    /\ onIdx' = 1
    /\ seen' = <<>>
    /\ drErrs' = <<>>
    /\ repos' = <<>>
    /\ reposErr' = NoError
    /\ requests' = <<>>
    /\ igpc' = "idle"
    /\ sendIdx' = 0
    /\ input' = <<>>
    /\ inputClosed' = FALSE
    /\ results' = <<>>
    /\ resultsClosed' = FALSE
    /\ checking' = {}
    /\ exited' = 0
    /\ ignored' = {}
    /\ igErrs' = <<>>
    /\ igErr' = NoError
    /\ fdpc' = "idle"
    /\ fdConf' = 0
    /\ fdIdx' = 0
    /\ sem' = 0
    /\ gor' = <<>>
    /\ fdResults' = <<>>
    /\ fdErrs' = <<>>
    /\ repoRevs' = <<>>
    /\ fwpc' = "idle"
    /\ root' = <<>>
    /\ matched' = <<>>
    /\ searched' = {}
    /\ workspacesByRepoRev' = <<>>
    /\ workspaces' = <<>>
    /\ fwErr' = NoError
    /\ finderCalls' = <<>>
    /\ resolved' = <<>>
    /\ resolveErr' = NoError
    /\ UNCHANGED <<options, handlerVars, preDequeueVars, queryVars, world, batchSpec, returned>>

\* The selectors of the batch specs that are resolved: a query, a selector
\* with neither query nor repository, and the first repository by name.
ResolveSelectors ==
    {OnQueryOrRepository(<<"x">>, <<>>, <<>>), OnQueryOrRepository(<<>>, <<>>, <<>>),
     OnQueryOrRepository(<<>>, RepoNames[1], <<>>)}

ByNameAndQuery ==
    <<OnQueryOrRepository(<<>>, RepoNames[1], <<>>), OnQueryOrRepository(<<"x">>, <<>>, <<>>)>>

Configuration(glob, onlyFetch) ==
    [In |-> glob, RootAtLocationOf |-> "go.mod", OnlyFetchWorkspace |-> onlyFetch]

\* The batch specs that are resolved: every list of selectors with no
\* workspace configuration or one for every repository, and two
\* repositories with some lists of configurations, with and without a
\* step whose condition is malformed.
ResolveBatchSpecs ==
    [On : UNION {[1..n -> ResolveSelectors] : n \in 0..MaxSelectors},
     Workspaces : {<<>>, <<Configuration(<<"*">>, FALSE)>>},
     Steps : {<<>>}]
    \cup
    [On : {ByNameAndQuery},
     Workspaces : {<<Configuration(<<"a", "*">>, TRUE)>>,
                   <<Configuration(<<"a", "*">>, TRUE), Configuration(<<"b">>, FALSE)>>,
                   <<Configuration(<<"*">>, FALSE), Configuration(<<"a", "*">>, FALSE)>>},
     Steps : {<<>>, <<[Run |-> 1, If |-> "malformed"]>>}]

\* The external state: the search finds the last repository, with or
\* without a file in the first one, or fails; the first repository has any
\* ignore file and any marker files, the others have none or fail. In one
\* more world the context carries no authenticated actor.
ResolveWorlds ==
    { [repo |-> [id \in 1..MaxRepos |-> [getByName |-> "ok", defaultBranch |-> "m", revision |-> "ok"]],
       search |-> [authenticated |-> FALSE, err |-> FALSE, list |-> "ok",
                   matches |-> <<EventMatch("repo", MaxRepos, <<>>)>>],
       stat |-> [id \in 1..MaxRepos |-> "absent"],
       find |-> [id \in 1..MaxRepos |-> [err |-> FALSE, paths |-> << <<"g">> >>]]] }
    \cup
    { [repo |-> [id \in 1..MaxRepos |-> [getByName |-> "ok", defaultBranch |-> "m", revision |-> "ok"]],
       search |-> s,
       stat |-> [id \in 1..MaxRepos |-> IF id = 1 THEN st ELSE "absent"],
       find |-> [id \in 1..MaxRepos |-> IF id = 1 THEN f ELSE g]] :
        s \in {[authenticated |-> TRUE, err |-> TRUE, matches |-> <<>>, list |-> "error"],
               [authenticated |-> TRUE, err |-> FALSE, list |-> "ok",
                matches |-> <<EventMatch("repo", MaxRepos, <<>>)>>],
               [authenticated |-> TRUE, err |-> FALSE, list |-> "ok",
                matches |-> <<EventMatch("path", 1, <<"g">>), EventMatch("repo", MaxRepos, <<>>)>>]},
        st \in {"absent", "regular", "error"},
        f \in {w \in FindWorlds : w.paths \in {<<>>, << <<"g">> >>, << <<"m", "/", "g">>, <<"g">> >>,
                                              << <<"m", "/", "g">>, <<"m", "/", "g">> >>}},
        g \in {[err |-> TRUE, paths |-> <<>>], [err |-> FALSE, paths |-> << <<"g">> >>]} }

InitResolve ==
    /\ options \in [FirecrackerEnabled : {TRUE}, NumHandlers : {1},
                    MaximumRuntimePerJob : {1}, VMPrefix : {VMPrefix}]
    /\ HandlerInit
    /\ liveVMs = 0
    /\ pd = NoPreDequeue
    /\ batchSpec \in ResolveBatchSpecs
    /\ repoRevs = <<>>
    /\ fwpc = "idle"
    /\ root = <<>>
    /\ matched = <<>>
    /\ searched = {}
    /\ workspacesByRepoRev = <<>>
    /\ workspaces = <<>>
    /\ fwErr = NoError
    /\ finderCalls = <<>>
    /\ QueryIdle
    /\ world \in ResolveWorlds
    /\ rpc = "determine"
    /\ onIdx = 1
    /\ seen = <<>>
    /\ drErrs = <<>>
    /\ repos = <<>>
    /\ reposErr = NoError
    /\ requests = <<>>
    /\ IgnoreIdle
    /\ FinderIdle
    /\ ResolveIdle

NextResolve ==
    \/ DetermineSelector
    \/ DetermineReturn
    \/ CheckRepositories
    \/ findIgnoredRepositories
    \/ CheckIgnored
    \/ PartitionWorkspaces
    \/ FindDirectoriesInRepos
    \/ EmitWorkspaces
    \/ ResolveReturn
    \/ ResolveAgain

SpecResolve == InitResolve /\ [][NextResolve]_vars

\* ------------------------------------------------------------------------
\* Properties of Handle
\* ------------------------------------------------------------------------
CallsOf(h, op) == {i \in DOMAIN calls[h] : calls[h][i].op = op}

IsRun(c) == c.op = "Run"
Runs(h) == SelectSeq(calls[h], IsRun)

SetupSucceeded(h) == \E i \in CallsOf(h, "Setup") : calls[h][i].ok

\* The message Handle wraps a failure of a phase with, and the error the
\* failed call of that phase returned.
PhaseMessage(phase) ==
    CASE phase = "prepareWorkspace" -> "failed to prepare workspace"
      [] phase = "setup" -> "failed to setup virtual machine"
      [] phase = "docker" -> "failed to perform docker step"
      [] phase = "cli" -> "failed to perform src-cli step"

PhaseCall(phase) ==
    CASE phase = "prepareWorkspace" -> "prepareWorkspace"
      [] phase = "setup" -> "Setup"
      [] phase = "docker" -> "Run"
      [] phase = "cli" -> "Run"

WrappedPhases == {"prepareWorkspace", "setup", "docker", "cli"}

IsDeadlineOutcome(o) == o \in {"deadline", "wrappedDeadline"}

\* The error of the failed phase as carried by Handle's result: the result
\* itself, or the first member of the aggregate a failed Teardown made of it.
StepError(e) == IF e.multi THEN e.errors[1] ELSE e.chain

\* What the claims expect Handle to return for the failure it recorded: the
\* phase's message around the distinguished error or around the cause.
ExpectedPhaseError(h) ==
    << Layer("msg", PhaseMessage(failure[h].phase), 0),
       IF IsDeadlineOutcome(failure[h].outcome)
       THEN Layer("job exceeded maximum execution time of", "", options.MaximumRuntimePerJob)
       ELSE Layer("cause", PhaseCall(failure[h].phase), 0) >>

\* C1: once Setup has returned successfully, Teardown is invoked exactly once
\* before Handle returns, on every exit path; it comes after Setup and after
\* every Run, and its context is not the job's deadline-bound context. At no
\* time has Teardown been invoked twice, or without a successful Setup.
C1_TeardownExactlyOnce ==
    \A h \in Workers :
        /\ Cardinality(CallsOf(h, "Teardown")) <= 1
        /\ CallsOf(h, "Teardown") # {} => SetupSucceeded(h)
        /\ \A t \in CallsOf(h, "Teardown") :
              /\ calls[h][t].ctx # "job"
              /\ \A i \in CallsOf(h, "Setup") \cup CallsOf(h, "Run") : i < t
        /\ (pc[h] = "done" /\ SetupSucceeded(h)) => Cardinality(CallsOf(h, "Teardown")) = 1

\* Handle has returned after the deadline cut off its last src-cli step, the
\* docker steps having run, and Teardown was invoked.
C1_Witness ==
    /\ pc["w1"] = "done"
    /\ failure["w1"] = [phase |-> "cli", outcome |-> "deadline"]
    /\ Len(job["w1"].DockerSteps) = 2
    /\ CallsOf("w1", "Teardown") # {}

\* C2: the VM name is in the in-use name set whenever Setup is about to be
\* invoked, while Handle is between Setup and the end of Teardown, and still
\* right after Teardown has returned; when Handle has returned after adding
\* the name, the name is not in the set.
C2_NameInUseAroundVM ==
    \A h \in Workers :
        /\ (pc[h] = "scripts" /\ idx[h] = Len(job[h].DockerSteps)) => name[h] \in nameSet
        /\ pc[h] \in {"dockerSteps", "cliSteps"} => name[h] \in nameSet
        /\ (\E i \in DOMAIN defers[h] : defers[h][i] = "teardown") => name[h] \in nameSet
        /\ (calls[h] # <<>> /\ calls[h][Len(calls[h])].op \in {"Setup", "Run", "Teardown"})
              => name[h] \in nameSet
        /\ (pc[h] = "done" /\ CallsOf(h, "NameSetAdd") # {}) => name[h] \notin nameSet

\* Handle has returned after a failed Setup, the name having been added.
C2_Witness ==
    /\ pc["w1"] = "done"
    /\ failure["w1"].phase = "setup"
    /\ CallsOf("w1", "NameSetAdd") # {}
    /\ CallsOf("w1", "NameSetRemove") # {}

\* The k-th Run of a job whose steps all run: docker steps 0..n-1, then
\* src-cli steps 0..m-1.
ExpectedRun(j, k) ==
    IF k <= Len(j.DockerSteps)
    THEN [kind |-> "docker", i |-> k - 1]
    ELSE [kind |-> "cli", i |-> k - 1 - Len(j.DockerSteps)]

\* C3: the Run calls of a job are a prefix of docker step 0..n-1 followed by
\* src-cli step 0..m-1; a src-cli step runs only after every docker step has
\* succeeded; a Run that returned an error is the last Run of the job.
C3_RunsInDeclaredOrder ==
    \A h \in Workers :
        LET runs == Runs(h)
        IN /\ Len(runs) <= Len(job[h].DockerSteps) + Len(job[h].CliSteps)
           /\ \A k \in DOMAIN runs :
                 /\ [kind |-> runs[k].kind, i |-> runs[k].i] = ExpectedRun(job[h], k)
                 /\ ~runs[k].ok => k = Len(runs)
                 /\ runs[k].kind = "cli" =>
                       \A d \in 0..(Len(job[h].DockerSteps) - 1) :
                           \E m \in 1..(k - 1) :
                               runs[m].kind = "docker" /\ runs[m].i = d /\ runs[m].ok

\* Two docker steps succeeded, the first src-cli step succeeded and the
\* second one failed.
C3_Witness ==
    /\ pc["w1"] = "done"
    /\ Len(job["w1"].DockerSteps) = 2
    /\ Len(Runs("w1")) = 4
    /\ failure["w1"].phase = "cli"

\* A path that is the directory or lies inside it.
WithinDirectory(path, dir) == path = dir \/ HasPrefix(path, dir \o <<"/">>)

EscapingFiles(h) ==
    {rel \in job[h].VirtualMachineFiles : ~WithinDirectory(Abs(Join(WorkDirOf(h), rel)), WorkDirOf(h))}

\* C4: a virtual file whose resolved path is neither the working directory
\* nor inside it is never written, and a job that has such a file makes
\* Handle return an error.
C4_EscapingFileRejected ==
    \A h \in Workers :
        /\ \A i \in CallsOf(h, "WriteFile") :
              calls[h][i].kind = "virtual" => WithinDirectory(calls[h][i].path, workingDirectory[h])
        /\ (pc[h] = "done" /\ EscapingFiles(h) # {}) => ~IsNil(err[h])

\* C5: when Handle rejects a virtual file because of the path guard, no
\* virtual file of the job has been written.
C5_NoWriteBeforeRejection ==
    \A h \in Workers :
        failure[h].phase = "guard" =>
            \A i \in CallsOf(h, "WriteFile") : ~(calls[h][i].kind = "virtual" /\ calls[h][i].ok)

TeardownFailed(h) == \E i \in CallsOf(h, "Teardown") : ~calls[h][i].ok

\* C6: when prepareWorkspace, Setup, a docker step or a src-cli step fails,
\* the error Handle returns for it is the phase's message wrapped around
\* "job exceeded maximum execution time of <MaximumRuntimePerJob>" if the
\* failure is a deadline error (also one wrapped by the collaborator), and
\* around the original cause otherwise; no deadline error is left in it. It
\* is Handle's whole result unless Teardown failed too, and then the first
\* member of the aggregate.
C6_DeadlineIsDistinguished ==
    \A h \in Workers :
        (pc[h] \in {"return", "done"} /\ failure[h].phase \in WrappedPhases) =>
            /\ StepError(err[h]) = ExpectedPhaseError(h)
            /\ ~ErrorsIs(StepError(err[h]), DeadlineExceeded)
            /\ ~TeardownFailed(h) => err[h] = Plain(ExpectedPhaseError(h))

\* A docker step failed with a deadline error that the runner had wrapped,
\* with MaximumRuntimePerJob set to 30 minutes.
C6_Witness ==
    /\ pc["w1"] = "done"
    /\ failure["w1"] = [phase |-> "docker", outcome |-> "wrappedDeadline"]
    /\ options.MaximumRuntimePerJob = 30
    /\ err["w1"] = Plain(<<Layer("msg", "failed to perform docker step", 0),
                           Layer("job exceeded maximum execution time of", "", 30)>>)

\* C7: after Teardown has returned an error, Handle's result is not nil and
\* carries the teardown error; if a step had failed, the result is the
\* aggregate of the step's wrapped error and the teardown error, and if no
\* step had failed it holds the teardown error alone.
C7_TeardownErrorIsCombined ==
    \A h \in Workers :
        TeardownFailed(h) =>
            /\ ~IsNil(err[h])
            /\ <<Layer("cause", "Teardown", 0)>> \in Members(err[h])
            /\ IF failure[h].phase \in {"docker", "cli"}
               THEN err[h].errors = <<ExpectedPhaseError(h), <<Layer("cause", "Teardown", 0)>> >>
               ELSE /\ failure[h].phase = ""
                    /\ err[h].errors = << <<Layer("cause", "Teardown", 0)>> >>

\* A docker step failed and then Teardown failed.
C7_Witness ==
    /\ pc["w1"] = "done"
    /\ failure["w1"] = [phase |-> "docker", outcome |-> "fail"]
    /\ TeardownFailed("w1")

\* C8: the image list given to Setup holds exactly the images of the job's
\* docker steps, each once, in ascending string order.
C8_SetupImagesSortedDistinct ==
    \A h \in Workers :
        \A i \in CallsOf(h, "Setup") :
            LET images == calls[h][i].images
            IN /\ Range(images) = {job[h].DockerSteps[k].Image : k \in DOMAIN job[h].DockerSteps}
               /\ \A a \in 1..(Len(images) - 1) : StrLess(images[a], images[a + 1])

\* Setup was called for a job whose two docker steps name "b" and then "ab".
C8_Witness ==
    /\ CallsOf("w1", "Setup") # {}
    /\ Len(job["w1"].DockerSteps) = 2
    /\ job["w1"].DockerSteps[1].Image = <<"b">>
    /\ job["w1"].DockerSteps[2].Image = <<"a", "b">>

\* ------------------------------------------------------------------------
\* Properties of PreDequeue
\* ------------------------------------------------------------------------
\* C9 as stated: PreDequeue returns (true, nil) exactly when Firecracker is
\* disabled or fewer than NumHandlers VMs are live, and (false, nil) when
\* Firecracker is enabled and at least NumHandlers VMs are live.
C9_AsStated ==
    pd.called =>
        /\ (pd.dequeueable /\ pd.err = <<>>)
              <=> (~options.FirecrackerEnabled \/ pd.live < options.NumHandlers)
        /\ (options.FirecrackerEnabled /\ pd.live >= options.NumHandlers)
              => (~pd.dequeueable /\ pd.err = <<>>)

\* C9, amended: PreDequeue returns (true, nil) exactly when Firecracker is
\* disabled or the listing of live VMs succeeds with fewer than NumHandlers
\* entries; it returns (false, nil) when Firecracker is enabled and the
\* listing succeeds with NumHandlers entries or more; when the listing fails
\* it returns false with the listing's error.
C9_PreDequeueAdmission ==
    pd.called =>
        /\ (pd.dequeueable /\ pd.err = <<>>)
              <=> (~options.FirecrackerEnabled
                     \/ (~pd.listFailed /\ pd.live < options.NumHandlers))
        /\ (options.FirecrackerEnabled /\ ~pd.listFailed /\ pd.live >= options.NumHandlers)
              => (~pd.dequeueable /\ pd.err = <<>>)
        /\ (options.FirecrackerEnabled /\ pd.listFailed)
              => (~pd.dequeueable /\ pd.err = <<Layer("cause", "CurrentlyRunningVMs", 0)>>)

\* PreDequeue refused a job with exactly NumHandlers VMs live.
C9_Witness ==
    /\ pd.called
    /\ options.FirecrackerEnabled
    /\ ~pd.listFailed
    /\ pd.live = options.NumHandlers
    /\ ~pd.dequeueable

\* C20: when Handle has returned and had called Setup, it has called Teardown
\* as well, after Setup, also when Setup returned an error or ran into the
\* deadline.
C20_TeardownWheneverSetupWasCalled ==
    \A h \in Workers :
        pc[h] = "done" =>
            \A i \in CallsOf(h, "Setup") : \E k \in CallsOf(h, "Teardown") : i < k

PrepareSucceeded(h) == \E i \in CallsOf(h, "prepareWorkspace") : calls[h][i].ok

\* The files on disk that are the directory or lie in it.
FilesIn(dir) == {p \in disk : p = dir \/ (Len(p) > Len(dir) /\ SubSeq(p, 1, Len(dir) + 1) = dir \o <<"/">>)}

\* C21: when Handle has returned after prepareWorkspace gave it a working
\* directory, the directory has been removed, by exactly one RemoveAll,
\* whatever made Handle return; RemoveAll is never called before Teardown.
C21_WorkingDirectoryRemoved ==
    \A h \in Workers :
        /\ Cardinality(CallsOf(h, "RemoveAll")) <= 1
        /\ \A r \in CallsOf(h, "RemoveAll") : \A t \in CallsOf(h, "Teardown") : t < r
        /\ (pc[h] = "done" /\ PrepareSucceeded(h)) =>
              /\ Cardinality(CallsOf(h, "RemoveAll")) = 1
              /\ FilesIn(workingDirectory[h]) = {}

\* Handle has returned after a docker step failed: a virtual file had been
\* written, Teardown was invoked and the directory was removed.
C21_Witness ==
    /\ pc["w1"] = "done"
    /\ failure["w1"].phase = "docker"
    /\ \E i \in CallsOf("w1", "WriteFile") : calls["w1"][i].kind = "virtual" /\ calls["w1"][i].ok
    /\ CallsOf("w1", "Teardown") # {}
    /\ CallsOf("w1", "RemoveAll") # {}

\* The place of a call in the order of the phases of Handle; 0 for the calls
\* that belong to no phase (the name set, the removal of the directory).
PhaseOf(c) ==
    CASE c.op = "prepareWorkspace" -> 1
      [] c.op = "WriteFile" /\ c.kind = "virtual" -> 2
      [] c.op = "WriteFile" /\ c.kind = "script" -> 3
      [] c.op = "Setup" -> 4
      [] c.op = "Run" /\ c.kind = "docker" -> 5
      [] c.op = "Run" /\ c.kind = "cli" -> 6
      [] c.op = "Teardown" -> 7
      [] OTHER -> 0

\* The successful writes of a kind among the first n calls.
WrittenBefore(h, kind, n) ==
    {i \in 1..(n - 1) : calls[h][i].op = "WriteFile" /\ calls[h][i].kind = kind /\ calls[h][i].ok}

\* C22: the calls of one Handle invocation come in the order of the phases
\* (prepareWorkspace, virtual files, step scripts, Setup, docker Runs,
\* src-cli Runs, Teardown): each is followed by a call of its own or of a
\* later phase, and only a call that succeeded is followed by a call other
\* than Teardown; Setup comes after a successful write of every virtual
\* file and every docker step script, every Run after a successful Setup,
\* and neither Setup nor Run after Teardown.
C22_PhasesInOrder ==
    \A h \in Workers :
        /\ LET phased == SelectSeq(calls[h], LAMBDA c : PhaseOf(c) # 0)
           IN \A i \in 1..(Len(phased) - 1) :
                 /\ PhaseOf(phased[i]) <= PhaseOf(phased[i + 1])
                 /\ phased[i].ok \/ phased[i + 1].op = "Teardown"
        /\ \A s \in CallsOf(h, "Setup") :
              /\ Cardinality(WrittenBefore(h, "virtual", s)) = Cardinality(job[h].VirtualMachineFiles)
              /\ Cardinality(WrittenBefore(h, "script", s)) = Len(job[h].DockerSteps)
        /\ \A r \in CallsOf(h, "Run") : \E s \in CallsOf(h, "Setup") : s < r /\ calls[h][s].ok
        /\ \A t \in CallsOf(h, "Teardown") :
              \A i \in CallsOf(h, "Setup") \cup CallsOf(h, "Run") : i < t

\* Handle has returned after going through every phase: two virtual files,
\* a script, Setup, a docker step, a src-cli step and Teardown.
C22_Witness ==
    /\ pc["w1"] = "done"
    /\ Cardinality(job["w1"].VirtualMachineFiles) = 2
    /\ \E i, k \in CallsOf("w1", "Run") : calls["w1"][i].kind = "docker" /\ calls["w1"][k].kind = "cli"
    /\ CallsOf("w1", "Teardown") # {}
    /\ failure["w1"] = NoFailure

\* The handlers that have executed Add and not yet Remove.
Registered == {h \in Workers : CallsOf(h, "NameSetAdd") # {} /\ CallsOf(h, "NameSetRemove") = {}}

\* The handlers between a successful Setup and the return of Teardown.
BetweenSetupAndTeardown == {h \in Workers : SetupSucceeded(h) /\ CallsOf(h, "Teardown") = {}}

\* C23: while Handle invocations with distinct VM names run side by side,
\* the in-use name set is at every moment the set of the names of the
\* handlers that have executed Add and not yet Remove; the name of a
\* handler between Setup and Teardown is in it, whatever the other
\* handlers have done.
C23_NameSetHoldsRunningHandlers ==
    /\ nameSet = {name[h] : h \in Registered}
    /\ \A h \in BetweenSetupAndTeardown : name[h] \in nameSet

\* One handler has returned and removed its name while the other one is
\* between Setup and Teardown.
C23_Witness ==
    /\ pc["w2"] = "done"
    /\ CallsOf("w2", "NameSetRemove") # {}
    /\ "w1" \in BetweenSetupAndTeardown
    /\ pc["w1"] = "dockerSteps"

\* ------------------------------------------------------------------------
\* Properties of findWorkspaces
\* ------------------------------------------------------------------------
WorkspacesFor(r) == {k \in DOMAIN workspaces : workspaces[k].RepoRevision = r}

\* Every repository has exactly one workspace, at the root and without the
\* fetch-only flag, and there is no other workspace.
OneRootWorkspacePerRepo ==
    /\ Len(workspaces) = Len(repoRevs)
    /\ \A i \in DOMAIN repoRevs : Cardinality(WorkspacesFor(repoRevs[i])) = 1
    /\ \A k \in DOMAIN workspaces :
          /\ workspaces[k].Path = <<>>
          /\ ~workspaces[k].OnlyFetchWorkspace
          /\ workspaces[k].RepoRevision \in Range(repoRevs)

\* C10 as stated: for a batch spec without workspace configurations,
\* findWorkspaces returns exactly one workspace per repository, at path ""
\* with OnlyFetchWorkspace false.
C10_AsStated ==
    (fwpc = "done" /\ Len(batchSpec.Workspaces) = 0) => OneRootWorkspacePerRepo

\* C10, amended: for a batch spec without workspace configurations,
\* findWorkspaces returns exactly one workspace per repository, at path ""
\* with OnlyFetchWorkspace false, unless the condition of a step fails to
\* evaluate for one of the repositories; then it returns that error and no
\* workspace.
C10_RootWorkspaces ==
    (fwpc = "done" /\ Len(batchSpec.Workspaces) = 0) =>
        IF fwErr = NoError
        THEN OneRootWorkspacePerRepo
        ELSE /\ workspaces = <<>>
             /\ fwErr.kind = "template"
             /\ \E k \in DOMAIN batchSpec.Steps : batchSpec.Steps[k].If = "malformed"
             /\ repoRevs # <<>>

\* findWorkspaces has returned two root workspaces for two repositories of a
\* batch spec that has steps and no workspace configuration.
C10_Witness ==
    /\ fwpc = "done"
    /\ Len(batchSpec.Workspaces) = 0
    /\ Len(batchSpec.Steps) = 2
    /\ fwErr = NoError
    /\ Len(repoRevs) = 2
    /\ Len(workspaces) = 2
    /\ workspaces[1].RepoRevision # workspaces[2].RepoRevision

\* The indexes of the workspace configurations whose glob matches the name
\* of a repository.
MatchingConfigurations(r) ==
    {ci \in DOMAIN batchSpec.Workspaces :
        /\ GlobCompiles(batchSpec.Workspaces[ci].In)
        /\ GlobMatch(batchSpec.Workspaces[ci].In, r.Repo.Name)}

Ambiguous(r) == Cardinality(MatchingConfigurations(r)) > 1

Min(S) == CHOOSE x \in S : \A y \in S : x <= y

MultipleGlobs == "validation: repository matches multiple workspaces.in globs"

\* C11 as stated: for every repository whose name matches the globs of more
\* than one workspace configuration, findWorkspaces returns a validation
\* error naming that repository and a later glob matching it, no workspaces,
\* and has asked for no directory search.
C11_AsStated ==
    fwpc = "done" =>
        \A i \in DOMAIN repoRevs :
            Ambiguous(repoRevs[i]) =>
                /\ fwErr.kind = MultipleGlobs
                /\ fwErr.repo = repoRevs[i].Repo.Name
                /\ \E ci \in MatchingConfigurations(repoRevs[i]) \ {Min(MatchingConfigurations(repoRevs[i]))} :
                      fwErr.glob = batchSpec.Workspaces[ci].In
                /\ workspaces = <<>>
                /\ finderCalls = <<>>

\* C11, amended: if every glob compiles and some repository's name matches
\* the globs of more than one workspace configuration, findWorkspaces returns
\* the validation error naming the first such repository of the list it was
\* given and the second glob, in declaration order, that matches it; if a
\* glob does not compile it returns the compile errors, one per such glob;
\* either way it returns no workspaces and has asked for no directory search.
\* Otherwise it does not return that validation error.
C11_AmbiguousRepositoryRejected ==
    fwpc = "done" =>
        LET bad == {ci \in DOMAIN batchSpec.Workspaces : ~GlobCompiles(batchSpec.Workspaces[ci].In)}
            amb == {i \in DOMAIN repoRevs : Ambiguous(repoRevs[i])}
        IN IF bad # {}
           THEN /\ fwErr.kind = "multierror"
                /\ Len(fwErr.errors) = Cardinality(bad)
                /\ \A k \in DOMAIN fwErr.errors :
                      fwErr.errors[k].kind = "validation: failed to compile glob"
                /\ workspaces = <<>>
                /\ finderCalls = <<>>
           ELSE IF amb # {}
           THEN LET r == repoRevs[Min(amb)]
                    first == Min(MatchingConfigurations(r))
                    second == Min(MatchingConfigurations(r) \ {first})
                IN /\ fwErr = Error(MultipleGlobs, r.Repo.Name, batchSpec.Workspaces[second].In, <<>>)
                   /\ workspaces = <<>>
                   /\ finderCalls = <<>>
           ELSE fwErr.kind # MultipleGlobs

\* findWorkspaces has rejected a batch spec with three configurations whose
\* globs all match the first of the two repositories it was given, more than
\* one of them the second.
C11_Witness ==
    /\ fwpc = "done"
    /\ Len(batchSpec.Workspaces) = 3
    /\ Len(repoRevs) = 2
    /\ Cardinality(MatchingConfigurations(repoRevs[1])) = 3
    /\ Ambiguous(repoRevs[2])
    /\ batchSpec.Workspaces[2].In # batchSpec.Workspaces[3].In
    /\ fwErr.kind = MultipleGlobs
    /\ fwErr.repo = repoRevs[1].Repo.Name
    /\ fwErr.glob = batchSpec.Workspaces[2].In
    /\ finderCalls = <<>>


\* C16: the list findWorkspaces returns holds no two entries with the same
\* repository key (repository ID, branch, commit) and the same path,
\* whatever directories the directory search returned.
C16_PathsUniquePerRepository ==
    fwpc = "done" =>
        \A i \in DOMAIN workspaces, j \in DOMAIN workspaces :
            (/\ Key(workspaces[i].RepoRevision) = Key(workspaces[j].RepoRevision)
             /\ workspaces[i].Path = workspaces[j].Path) => i = j

\* ------------------------------------------------------------------------
\* Properties of setDefaultQueryCount
\* ------------------------------------------------------------------------
\* The count tokens within reach of the queries.
CountTokens ==
    { <<"c", "o", "u", "n", "t", ":">> \o v :
        v \in { <<"a", "l", "l">>, <<"5">>, <<"5", "5">>, <<"5", "5", "5">> } }

\* The query holds a count token that is not part of a longer word.
HasCountToken(s) ==
    \E i \in 1..Len(s), j \in 1..Len(s) :
        /\ i <= j
        /\ SubSeq(s, i, j) \in CountTokens
        /\ i = 1 \/ s[i - 1] \notin WordChars
        /\ j = Len(s) \/ s[j + 1] \notin WordChars

\* C14: setDefaultQueryCount returns the query with " count:all" appended
\* when the query holds no count:<digits> or count:all token, the query
\* itself when it holds one, and a second call on the result returns the
\* result.
C14_DefaultQueryCount ==
    /\ Len(counted) >= 1 =>
          counted[1] = IF HasCountToken(query) THEN query
                       ELSE query \o <<" ", "c", "o", "u", "n", "t", ":", "a", "l", "l">>
    /\ Len(counted) >= 2 => counted[2] = counted[1]

\* setDefaultQueryCount has been called twice on "count:5x", in which
\* count:5 is part of a longer word, and has appended the default once.
C14_Witness ==
    /\ query = <<"c", "o", "u", "n", "t", ":", "5", "x">>
    /\ Len(counted) = 2
    /\ Len(counted[2]) = Len(query) + 10


\* ------------------------------------------------------------------------
\* Properties of determineRepositories
\* ------------------------------------------------------------------------
\* The RepoRevisions with a branch that selector k resolves to for a
\* repository; none if the selector fails.
BranchesFrom(k, id) ==
    LET res == resolveRepositoriesOn(world, batchSpec.On[k])
    IN IF res.err # NoError THEN {}
       ELSE {res.revs[j] : j \in {i \in DOMAIN res.revs :
                                      res.revs[i].Repo.ID = id /\ HasBranch(res.revs[i])}}

SelectorsResolving(id) == {k \in DOMAIN batchSpec.On : BranchesFrom(k, id) # {}}

Max(S) == CHOOSE x \in S : \A y \in S : y <= x

\* C13: determineRepositories returns no two RepoRevisions with the same
\* repository ID, one for every repository that some selector resolves to
\* with a branch and for no other, and each carries the branch and the commit
\* of the last selector, in declaration order, that resolves to it with a
\* branch.
C13_LastSelectorWins ==
    rpc = "determined" =>
        /\ \A i \in DOMAIN repos, j \in DOMAIN repos :
              repos[i].Repo.ID = repos[j].Repo.ID => i = j
        /\ {repos[i].Repo.ID : i \in DOMAIN repos}
              = {id \in 1..MaxRepos : SelectorsResolving(id) # {}}
        /\ \A i \in DOMAIN repos :
              \E r \in BranchesFrom(Max(SelectorsResolving(repos[i].Repo.ID)), repos[i].Repo.ID) :
                  /\ repos[i].Branch = r.Branch
                  /\ repos[i].Commit = r.Commit

\* determineRepositories has returned one RepoRevision, on branch "d", for a
\* repository that the first selector resolved to its default branch "m"
\* and the second to its branch "d".
C13_Witness ==
    /\ rpc = "determined"
    /\ Len(batchSpec.On) = 2
    /\ batchSpec.On[1] = OnQueryOrRepository(<<>>, RepoNames[1], <<>>)
    /\ batchSpec.On[2] = OnQueryOrRepository(<<>>, RepoNames[1], <<"d">>)
    /\ world.repo[1].defaultBranch = "m"
    /\ world.repo[1].revision = "ok"
    /\ Len(repos) = 1
    /\ repos[1].Branch = <<"d">>
    /\ repos[1].Commit = BranchCommit(1)
    /\ reposErr = NoError


\* ------------------------------------------------------------------------
\* Properties of findIgnoredRepositories
\* ------------------------------------------------------------------------
\* The positions in repos of the repositories whose check fails: the lookup
\* fails, or .batchignore is not a regular file.
FailedChecks == {i \in DOMAIN repos : world.stat[repos[i].Repo.ID] \in {"directory", "error"}}

\* C18: findIgnoredRepositories returns the set of exactly the repositories
\* in which .batchignore is a regular file, whether or not the checks of
\* other repositories fail, and an error exactly when a check failed: the
\* aggregate of one error per failed check.
C18_PartialIgnoredSetAndAggregate ==
    (rpc = "ignore" /\ igpc = "done") =>
        /\ ignored = {repos[i].Repo.ID : i \in {k \in DOMAIN repos :
                                                 world.stat[repos[k].Repo.ID] = "regular"}}
        /\ (igErr # NoError) <=> (FailedChecks # {})
        /\ igErr # NoError =>
              /\ igErr.kind = "multierror"
              /\ Len(igErr.errors) = Cardinality(FailedChecks)
              /\ \A i \in FailedChecks :
                    \E k \in DOMAIN igErr.errors :
                        /\ igErr.errors[k].repo = repos[i].Repo.Name
                        /\ igErr.errors[k].kind =
                              IF world.stat[repos[i].Repo.ID] = "directory" THEN "not a blob"
                              ELSE "Stat"

\* findIgnoredRepositories has returned one ignored repository and the
\* error of the other repository, whose .batchignore is a directory.
C18_Witness ==
    /\ rpc = "ignore"
    /\ igpc = "done"
    /\ Len(repos) = 2
    /\ world.stat[repos[1].Repo.ID] = "directory"
    /\ world.stat[repos[2].Repo.ID] = "regular"
    /\ ignored = {repos[2].Repo.ID}
    /\ igErr # NoError
    /\ Len(igErr.errors) = 1

\* The Stat requests made for a repository.
StatRequests(id) == {i \in DOMAIN requests : requests[i] = Request("Stat", id)}

\* At most five checks are in flight, no repository is checked twice, the
\* channels never hold more than they have room for (so that no send
\* blocks), results is closed only when all five workers have returned, and
\* at the return every repository has been checked once.
PoolSafe ==
    /\ Cardinality(checking) <= 5
    /\ \A i \in DOMAIN repos : Cardinality(StatRequests(repos[i].Repo.ID)) <= 1
    /\ \A i \in checking : StatRequests(repos[i].Repo.ID) = {}
    /\ Len(input) <= Len(repos)
    /\ Len(results) <= Len(repos)
    /\ resultsClosed => (exited = 5 /\ checking = {} /\ input = <<>>)
    /\ igpc = "done" =>
          /\ resultsClosed
          /\ \A i \in DOMAIN repos : Cardinality(StatRequests(repos[i].Repo.ID)) = 1

\* C24: in findIgnoredRepositories, for no repository, one, or more than
\* five, at most 5 checks are in flight at any moment, every repository is
\* checked exactly once, results is closed only after all 5 workers have
\* returned, and the function returns in the end.
C24_PoolOfFiveTerminates == []PoolSafe /\ <>(igpc = "done")

\* Five checks are in flight while a sixth repository waits in input.
C24_Witness ==
    /\ Len(repos) > 5
    /\ Cardinality(checking) = 5
    /\ input # <<>>

\* ------------------------------------------------------------------------
\* Properties of ResolveWorkspacesForBatchSpec
\* ------------------------------------------------------------------------
\* C12: two calls of ResolveWorkspacesForBatchSpec with the same batch spec
\* against the same external state return the same workspaces in the same
\* order, whatever the iteration order of the maps, the choices of the
\* sorts and the interleaving of the ignore checks and directory searches.
C12_SameWorkspacesOnEveryRun ==
    \A i, j \in DOMAIN returned : returned[i].workspaces = returned[j].workspaces

\* Two calls that sent their requests in different orders returned three
\* or more workspaces of two repositories, one of them ignored.
C12_Witness ==
    /\ Len(returned) = MaxRuns
    /\ returned[1].requests # returned[2].requests
    /\ Len(returned[1].workspaces) >= 3
    /\ \E i, j \in DOMAIN returned[1].workspaces :
          /\ returned[1].workspaces[i].RepoRevision.Repo.ID # returned[1].workspaces[j].RepoRevision.Repo.ID
          /\ returned[1].workspaces[i].Ignored


\* a is not after b in the order of (repository name, path, branch).
NotAfter(a, b) ==
    LET an == a.RepoRevision.Repo.Name
        bn == b.RepoRevision.Repo.Name
        ab == a.RepoRevision.Branch
        bb == b.RepoRevision.Branch
    IN \/ StrLess(an, bn)
       \/ an = bn /\ StrLess(a.Path, b.Path)
       \/ an = bn /\ a.Path = b.Path /\ (StrLess(ab, bb) \/ ab = bb)

\* C15: every workspace list ResolveWorkspacesForBatchSpec returns is in
\* ascending order of repository name, then path, then branch.
C15_ReturnedInAscendingOrder ==
    \A r \in DOMAIN returned :
        \A i, j \in DOMAIN returned[r].workspaces :
            i < j => NotAfter(returned[r].workspaces[i], returned[r].workspaces[j])

\* A call returned workspaces of two repositories, two of them in one
\* repository at different paths.
C15_Witness ==
    \E r \in DOMAIN returned :
        \E i, j, k \in DOMAIN returned[r].workspaces :
            /\ returned[r].workspaces[i].RepoRevision.Repo.Name = returned[r].workspaces[j].RepoRevision.Repo.Name
            /\ returned[r].workspaces[i].Path # returned[r].workspaces[j].Path
            /\ returned[r].workspaces[k].RepoRevision.Repo.Name # returned[r].workspaces[i].RepoRevision.Repo.Name


\* The selectors of the batch spec that fail against the external state.
SelectorsFailing ==
    {k \in DOMAIN batchSpec.On : resolveRepositoriesOn(world, batchSpec.On[k]).err # NoError}

\* The requests of an operation in a log of requests.
RequestsOf(op, log) == {i \in DOMAIN log : log[i].op = op}

\* C17: when determineRepositories has returned, every selector has been
\* attempted exactly once, in order, and if some selector failed the error
\* is a multierror with one "resolving" error per failed selector, in
\* order; ResolveWorkspacesForBatchSpec then returns that error and no
\* workspaces, without an ignore-file check, without findWorkspaces and
\* without a directory search.
C17_EverySelectorAttemptedAndErrorsAggregated ==
    rpc \in {"determined", "done"} /\ SelectorsFailing # {} =>
        /\ [i \in 1..Cardinality(RequestsOf("resolveRepositoriesOn", requests)) |->
               requests[CHOOSE k \in RequestsOf("resolveRepositoriesOn", requests) :
                           Cardinality({l \in RequestsOf("resolveRepositoriesOn", requests) : l <= k}) = i].arg]
             = [i \in DOMAIN batchSpec.On |-> i]
        /\ reposErr.kind = "multierror"
        /\ Len(reposErr.errors) = Cardinality(SelectorsFailing)
        /\ \A k \in SelectorsFailing :
              LET n == Cardinality({l \in SelectorsFailing : l <= k})
              IN /\ reposErr.errors[n].kind = "resolving"
                 /\ reposErr.errors[n].on = batchSpec.On[k]
                 /\ reposErr.errors[n].cause = resolveRepositoriesOn(world, batchSpec.On[k]).err
        /\ rpc = "done" =>
              /\ resolveErr = reposErr
              /\ resolved = <<>>
              /\ returned[Len(returned)].err = reposErr
              /\ returned[Len(returned)].workspaces = <<>>
              /\ RequestsOf("Stat", requests) = {}
              /\ igpc = "idle"
              /\ fwpc = "idle"
              /\ finderCalls = <<>>

\* The first selector failed, the second one resolved a repository, and the
\* call returned.
C17_Witness ==
    /\ rpc = "done"
    /\ Len(batchSpec.On) = 2
    /\ SelectorsFailing = {1}
    /\ seen # <<>>
    /\ resolveErr # NoError


\* The directory that contains a file, the root written "".
ContainingDirectory(p) ==
    IF \A i \in DOMAIN p : p[i] # "/" THEN <<>>
    ELSE SubSeq(p, 1, (CHOOSE i \in DOMAIN p : p[i] = "/" /\ \A j \in DOMAIN p : p[j] = "/" => j <= i) - 1)

\* The directories the search service returned for a repository.
Discovered(r) ==
    [i \in DOMAIN world.find[r.Repo.ID].paths |-> ContainingDirectory(world.find[r.Repo.ID].paths[i])]

\* The directory search for a repository has been made.
Searched(r) ==
    \E i \in DOMAIN requests :
        /\ requests[i].op = "search"
        /\ requests[i].arg = [file |-> "go.mod", repo |-> r.Repo.Name, commit |-> r.Commit]

\* The repositories that match exactly one workspace configuration and
\* whose directory search has been made and has not failed.
MatchedOnce ==
    {r \in Range(repoRevs) :
        /\ Cardinality(MatchingConfigurations(r)) = 1
        /\ Searched(r)
        /\ ~world.find[r.Repo.ID].err}

\* The workspaces of a repository are one per directory the search
\* returned for it, and none if it returned none.
OneWorkspacePerDirectory(r) ==
    /\ Cardinality(WorkspacesFor(r)) = Len(Discovered(r))
    /\ \A k \in WorkspacesFor(r) :
          Cardinality({l \in WorkspacesFor(r) : workspaces[l].Path = workspaces[k].Path})
              = Cardinality({i \in DOMAIN Discovered(r) : Discovered(r)[i] = workspaces[k].Path})

SelectorsWithoutBranch(id) ==
    {k \in DOMAIN batchSpec.On :
        LET res == resolveRepositoriesOn(world, batchSpec.On[k])
        IN /\ res.err = NoError
           /\ \E j \in DOMAIN res.revs : res.revs[j].Repo.ID = id /\ res.revs[j].Branch = <<>>}

\* C29: a RepoRevision without a branch is not in the result of
\* determineRepositories and adds no error to the errors of the failed
\* selectors; a repository that selectors resolve to with a branch is
\* returned with a branch and commit that one of them gave, also when a
\* later selector resolves to it without a branch.
C29_BranchlessDroppedSilently ==
    rpc = "determined" =>
        /\ \A i \in DOMAIN repos : repos[i].Branch # <<>>
        /\ Len(drErrs) = Cardinality({k \in DOMAIN batchSpec.On :
                                         resolveRepositoriesOn(world, batchSpec.On[k]).err # NoError})
        /\ \A id \in 1..MaxRepos :
              (SelectorsWithoutBranch(id) # {} /\ SelectorsResolving(id) # {}) =>
                  \E i \in DOMAIN repos :
                      /\ repos[i].Repo.ID = id
                      /\ \E r \in BranchesFrom(Max(SelectorsResolving(id)), id) :
                            repos[i].Branch = r.Branch /\ repos[i].Commit = r.Commit

\* The first selector resolved the repository to its branch "d", the second
\* one resolved it without a branch (it has no default branch), and
\* determineRepositories has returned it on "d", without an error.
C29_Witness ==
    /\ rpc = "determined"
    /\ Len(batchSpec.On) = 2
    /\ batchSpec.On[1] = OnQueryOrRepository(<<>>, RepoNames[1], <<"d">>)
    /\ batchSpec.On[2] = OnQueryOrRepository(<<>>, RepoNames[1], <<>>)
    /\ world.repo[1].defaultBranch = "none"
    /\ world.repo[1].revision = "ok"
    /\ SelectorsWithoutBranch(1) = {2}
    /\ Len(repos) = 1
    /\ repos[1].Branch = <<"d">>
    /\ repos[1].Commit = BranchCommit(1)
    /\ reposErr = NoError

\* The repository name + branch selectors that determineRepositories has
\* resolved so far and whose git.ResolveRevision lookup failed, with
\* "revision not found" or with another error.
FailedRevisionLookups ==
    {k \in DOMAIN batchSpec.On :
        /\ (k < onIdx \/ rpc # "determine")
        /\ batchSpec.On[k].RepositoriesMatchingQuery = <<>>
        /\ batchSpec.On[k].Repository # <<>>
        /\ batchSpec.On[k].Branch # <<>>
        /\ \E id \in 1..MaxRepos :
              /\ RepoNames[id] = batchSpec.On[k].Repository
              /\ world.repo[id].getByName = "ok"
              /\ world.repo[id].revision # "ok"}

\* C31: for a repository name + branch selector whose resolve-revision
\* lookup fails, with "revision not found" or with any other error,
\* resolveRepositoryNameAndBranch returns an error and no RepoRevision: the
\* selector adds a "resolving" error and no RepoRevision with an empty
\* commit is recorded.
C31_FailedLookupReturnsError ==
    /\ \A k \in FailedRevisionLookups :
          \E j \in DOMAIN drErrs : drErrs[j].on = batchSpec.On[k]
    /\ \A id \in DOMAIN seen : seen[id].Commit # NoCommit

\* ------------------------------------------------------------------------
\* Properties of runSearch
\* ------------------------------------------------------------------------
ErrNoUser == Error("no user set in workspaceResolver.runSearch", <<>>, <<>>, <<>>)

\* The selectors that determineRepositories has resolved so far and that
\* are search queries.
QueriesResolved ==
    {k \in DOMAIN batchSpec.On :
        /\ batchSpec.On[k].RepositoriesMatchingQuery # <<>>
        /\ (k < onIdx \/ rpc # "determine")}

\* The requests that have been sent to the search service.
SearchRequests == {i \in DOMAIN requests : requests[i].op = "search"}

\* The goroutines of FindDirectoriesInRepos whose search has returned.
SearchesReturned == {i \in DOMAIN gor : gor[i].pc # "search"}

\* C30: when the context carries no authenticated actor, no request is
\* sent to the search service; a search-query selector fails with the error
\* of runSearch and gives no repository, and a directory-discovery search
\* fails with it and gives no directory.
C30_NoActorNoSearch ==
    ~world.search.authenticated =>
        /\ SearchRequests = {}
        /\ \A k \in QueriesResolved :
              \E j \in DOMAIN drErrs : drErrs[j] = Resolving(ErrNoUser, batchSpec.On[k])
        /\ \A id \in DOMAIN seen :
              \E k \in DOMAIN batchSpec.On : batchSpec.On[k].Repository = RepoNames[id]
        /\ \A i \in SearchesReturned : gor[i].err = ErrNoUser /\ gor[i].dirs = <<>>
        /\ fdResults = <<>>

\* Without an actor, and with a marker file in every repository, the
\* search of directory discovery has returned for the repository that was
\* selected by name and findWorkspaces has returned its error and no
\* workspace.
C30_Witness ==
    /\ ~world.search.authenticated
    /\ Cardinality(SearchesReturned) = 1
    /\ fdpc = "idle"
    /\ fwpc = "done"
    /\ fwErr # NoError
    /\ workspaces = <<>>
    /\ SearchRequests = {}

\* ------------------------------------------------------------------------
\* Properties of stepsForRepo and of the workspaces built with its steps
\* ------------------------------------------------------------------------
\* A step is kept for a repository: its condition is empty, or cannot be
\* decided statically, or is decided true.
KeptFor(step, repoName) ==
    \/ step.If = ""
    \/ ~IsStaticBool(step.If, repoName).static
    \/ IsStaticBool(step.If, repoName).boolVal

\* The steps of the batch spec that are kept for a repository, in their
\* declared order.
StepsKept(repoName) == SelectSeq(batchSpec.Steps, LAMBDA step : KeptFor(step, repoName))

\* Every condition of the batch spec evaluates for the repository.
Evaluates(repoName) ==
    \A k \in DOMAIN batchSpec.Steps :
        batchSpec.Steps[k].If # "" => ~IsStaticBool(batchSpec.Steps[k].If, repoName).err

\* findWorkspaces has returned after its loop over workspacesByRepoRev.
StepsComputed ==
    /\ fwpc = "done"
    /\ fwErr # NoError => fwErr.kind = "template"

\* The claim of C27 as it is worded: for every repository stepsForRepo
\* returns the steps that are kept for it.
C27_AsStated ==
    StepsComputed =>
        \A key \in DOMAIN workspacesByRepoRev :
            LET rev == workspacesByRepoRev[key].RepoRevision
            IN stepsForRepo(batchSpec, rev.Repo.Name, rev.FileMatches).steps = StepsKept(rev.Repo.Name)

\* C27: when every condition evaluates, stepsForRepo returns the spec's
\* steps in their declared order, a step being kept exactly when its
\* condition is empty, not statically decidable, or decided true, and every
\* workspace emitted for a repository, whatever its path, carries that list;
\* when a condition does not evaluate, stepsForRepo returns an error and no
\* step.
C27_StepsKeptInOrder ==
    StepsComputed =>
        /\ \A key \in DOMAIN workspacesByRepoRev :
               LET rev == workspacesByRepoRev[key].RepoRevision
                   res == stepsForRepo(batchSpec, rev.Repo.Name, rev.FileMatches)
               IN IF Evaluates(rev.Repo.Name)
                  THEN res.err = NoError /\ res.steps = StepsKept(rev.Repo.Name)
                  ELSE res.err # NoError /\ res.steps = <<>>
        /\ fwErr = NoError =>
               \A i \in DOMAIN workspaces :
                   workspaces[i].Steps = StepsKept(workspaces[i].RepoRevision.Repo.Name)

\* A repository got two workspaces at different paths, with a list of
\* steps from which one step of the spec is left out and one is kept.
C27_Witness ==
    /\ fwpc = "done"
    /\ fwErr = NoError
    /\ \E i, j \in DOMAIN workspaces :
          /\ workspaces[i].RepoRevision = workspaces[j].RepoRevision
          /\ workspaces[i].Path # workspaces[j].Path
          /\ workspaces[i].Steps # <<>>
          /\ Len(workspaces[i].Steps) < Len(batchSpec.Steps)
          /\ workspaces[j].Steps = workspaces[i].Steps

\* The repository was matched by a workspace configuration that asks for
\* the workspace only to be fetched.
MatchedWithFetchFlag(rev) ==
    \E ci \in DOMAIN matched :
        /\ rev \in Range(matched[ci])
        /\ batchSpec.Workspaces[ci].OnlyFetchWorkspace

\* C28: in every workspace emitted by findWorkspaces, OnlyFetchWorkspace is
\* true exactly when the path is not "" and the repository was matched by a
\* workspace configuration with the flag set; it is false at path "" and for
\* the repositories of the root bucket.
C28_FetchFlagOnlyBelowRoot ==
    fwpc = "done" =>
        \A i \in DOMAIN workspaces :
            /\ workspaces[i].OnlyFetchWorkspace <=>
                   (workspaces[i].Path # <<>> /\ MatchedWithFetchFlag(workspaces[i].RepoRevision))
            /\ workspaces[i].Path = <<>> => ~workspaces[i].OnlyFetchWorkspace
            /\ workspaces[i].RepoRevision \in Range(root) => ~workspaces[i].OnlyFetchWorkspace

\* A repository matched by a configuration with the flag set got a
\* workspace at its root, without the flag, and one below, with the flag,
\* next to a workspace of a repository of the root bucket.
C28_Witness ==
    /\ fwpc = "done"
    /\ \E i, j, k \in DOMAIN workspaces :
          /\ workspaces[i].RepoRevision = workspaces[j].RepoRevision
          /\ MatchedWithFetchFlag(workspaces[i].RepoRevision)
          /\ workspaces[i].Path = <<>> /\ ~workspaces[i].OnlyFetchWorkspace
          /\ workspaces[j].Path # <<>> /\ workspaces[j].OnlyFetchWorkspace
          /\ workspaces[k].RepoRevision \in Range(root)

\* ------------------------------------------------------------------------
\* Properties of FindDirectoriesInRepos
\* ------------------------------------------------------------------------
\* The goroutines whose request has been started and has not finished.
InFlight == {i \in DOMAIN gor : gor[i].pc # "finished"}

\* At most ten requests are in flight, and while the function runs a permit
\* is missing from sem for each of them and for nothing else.
PermitsSafe ==
    /\ Cardinality(InFlight) <= 10
    /\ fdpc \in {"spawn", "wait"} => sem = 10 - Cardinality(InFlight)

\* The function returns only with every started request finished, every
\* repository's request started, and all ten permits back in sem.
ReturnsAfterJoin ==
    (fdpc = "wait" /\ fdpc' = "idle") =>
        /\ InFlight = {}
        /\ Len(gor) = Len(matched[fdConf])
        /\ sem = 10

AllRequestsFinished ==
    /\ fdpc = "wait"
    /\ sem = FinderPermits
    /\ Len(gor) = Len(matched[fdConf])

\* The result map holds an entry for exactly the repositories whose request
\* succeeded.
ResultMapExact ==
    AllRequestsFinished =>
        DOMAIN fdResults = {Key(matched[fdConf][i]) : i \in {k \in DOMAIN gor : gor[k].err = NoError}}

\* C26: in FindDirectoriesInRepos, however the concurrent requests
\* interleave, the error of each failed directory-discovery request is in
\* the returned aggregate error, and the result map holds an entry for
\* exactly the repositories whose request succeeded.
C26_NoFailureLostAndMapExact ==
    /\ AllRequestsFinished =>
           \A i \in DOMAIN gor :
               gor[i].err # NoError => \E k \in DOMAIN fdErrs : fdErrs[k] = gor[i].err
    /\ ResultMapExact

====
